---- MODULE Spec2Model ----
(***************************************************************************)
(* Verification model of amazon-qldb-kvs-nodejs: the hash verifier         *)
(* (src/src/Verifier.ts), the metadata verification built on it            *)
(* (src/src/VerifyDocument.ts) and the ledger calls they rest on.          *)
(*                                                                         *)
(* Byte arrays (Uint8Array, Buffer) are sequences of 0..255, 1-indexed:    *)
(* JavaScript index i is index i + 1 here.  A thrown error is a result     *)
(* record with ok = FALSE.                                                 *)
(***************************************************************************)
EXTENDS Integers, Sequences, FiniteSets, TLC

HASH_LENGTH == 32
UPPER_BOUND == 8

(***************************************************************************)
(* SHA-256 (FIPS 180-4), the function behind createHash('sha256').  A      *)
(* 32-bit word is a pair <<high 16 bits, low 16 bits>>, so that every      *)
(* intermediate number stays below 2^31.                                   *)
(***************************************************************************)
Bit(x, k) == (x \div (2 ^ k)) % 2

NibXor3 == [x \in 0..15 |-> [y \in 0..15 |-> [z \in 0..15 |->
    ((Bit(x, 0) + Bit(y, 0) + Bit(z, 0)) % 2)
  + ((Bit(x, 1) + Bit(y, 1) + Bit(z, 1)) % 2) * 2
  + ((Bit(x, 2) + Bit(y, 2) + Bit(z, 2)) % 2) * 4
  + ((Bit(x, 3) + Bit(y, 3) + Bit(z, 3)) % 2) * 8]]]

ChBit(e, f, g) == IF e = 1 THEN f ELSE g

NibCh == [x \in 0..15 |-> [y \in 0..15 |-> [z \in 0..15 |->
    ChBit(Bit(x, 0), Bit(y, 0), Bit(z, 0))
  + ChBit(Bit(x, 1), Bit(y, 1), Bit(z, 1)) * 2
  + ChBit(Bit(x, 2), Bit(y, 2), Bit(z, 2)) * 4
  + ChBit(Bit(x, 3), Bit(y, 3), Bit(z, 3)) * 8]]]

MajBit(a, b, c) == IF a + b + c >= 2 THEN 1 ELSE 0

NibMaj == [x \in 0..15 |-> [y \in 0..15 |-> [z \in 0..15 |->
    MajBit(Bit(x, 0), Bit(y, 0), Bit(z, 0))
  + MajBit(Bit(x, 1), Bit(y, 1), Bit(z, 1)) * 2
  + MajBit(Bit(x, 2), Bit(y, 2), Bit(z, 2)) * 4
  + MajBit(Bit(x, 3), Bit(y, 3), Bit(z, 3)) * 8]]]

\* A three-input bitwise operation on 16-bit numbers, nibble by nibble.
Nib16(T, a, b, c) ==
    T[a \div 4096][b \div 4096][c \div 4096] * 4096
  + T[(a \div 256) % 16][(b \div 256) % 16][(c \div 256) % 16] * 256
  + T[(a \div 16) % 16][(b \div 16) % 16][(c \div 16) % 16] * 16
  + T[a % 16][b % 16][c % 16]

Nib32(T, x, y, z) == <<Nib16(T, x[1], y[1], z[1]), Nib16(T, x[2], y[2], z[2])>>

\* Addition modulo 2^32 of the column sums hi, lo.
WNorm(hi, lo) == <<(hi + (lo \div 65536)) % 65536, lo % 65536>>

Sum4(a, b, c, d) == WNorm(a[1] + b[1] + c[1] + d[1], a[2] + b[2] + c[2] + d[2])

RotrLow(a, b, n) ==
  <<(a \div (2 ^ n)) + (b % (2 ^ n)) * (2 ^ (16 - n)),
    (b \div (2 ^ n)) + (a % (2 ^ n)) * (2 ^ (16 - n))>>

Rotr(x, n) == IF n >= 16 THEN RotrLow(x[2], x[1], n - 16) ELSE RotrLow(x[1], x[2], n)

Shr(x, n) == <<x[1] \div (2 ^ n), (x[2] \div (2 ^ n)) + (x[1] % (2 ^ n)) * (2 ^ (16 - n))>>

SHA256_K ==
  <<
    <<17034, 12184>>, <<28983, 17553>>, <<46528, 64463>>, <<59829, 56229>>,
    <<14678, 49755>>, <<23025, 4593>>, <<37439, 33444>>, <<43804, 24277>>,
    <<55303, 43672>>, <<4739, 23297>>, <<9265, 34238>>, <<21772, 32195>>,
    <<29374, 23924>>, <<32990, 45566>>, <<39900, 1703>>, <<49563, 61812>>,
    <<58523, 27073>>, <<61374, 18310>>, <<4033, 40390>>, <<9228, 41420>>,
    <<11753, 11375>>, <<19060, 33962>>, <<23728, 43484>>, <<30457, 35034>>,
    <<38974, 20818>>, <<43057, 50797>>, <<45059, 10184>>, <<48985, 32711>>,
    <<50912, 3059>>, <<54695, 37191>>, <<1738, 25425>>, <<5161, 10599>>,
    <<10167, 2693>>, <<11803, 8504>>, <<19756, 28156>>, <<21304, 3347>>,
    <<25866, 29524>>, <<30314, 2747>>, <<33218, 51502>>, <<37490, 11397>>,
    <<41663, 59553>>, <<43034, 26187>>, <<49739, 35696>>, <<51052, 20899>>,
    <<53650, 59417>>, <<54937, 1572>>, <<62478, 13701>>, <<4202, 41072>>,
    <<6564, 49430>>, <<7735, 27656>>, <<10056, 30540>>, <<13488, 48309>>,
    <<14620, 3251>>, <<20184, 43594>>, <<23452, 51791>>, <<26670, 28659>>,
    <<29839, 33518>>, <<30885, 25455>>, <<33992, 30740>>, <<36039, 520>>,
    <<37054, 65530>>, <<42064, 27883>>, <<48889, 41975>>, <<50801, 30962>>
  >>

SHA256_H0 ==
  <<
    <<27145, 58983>>, <<47975, 44677>>, <<15470, 62322>>, <<42319, 62778>>,
    <<20750, 21119>>, <<39685, 26764>>, <<8067, 55723>>, <<23520, 52505>>
  >>

BigSigma0(a) == Nib32(NibXor3, Rotr(a, 2), Rotr(a, 13), Rotr(a, 22))
BigSigma1(e) == Nib32(NibXor3, Rotr(e, 6), Rotr(e, 11), Rotr(e, 25))
SmallSigma0(w) == Nib32(NibXor3, Rotr(w, 7), Rotr(w, 18), Shr(w, 3))
SmallSigma1(w) == Nib32(NibXor3, Rotr(w, 17), Rotr(w, 19), Shr(w, 10))
Ch(e, f, g) == Nib32(NibCh, e, f, g)
Maj(a, b, c) == Nib32(NibMaj, a, b, c)

\* The message, 0x80, zeros up to 56 modulo 64, and the bit length on 8 bytes.
Pad(msg) ==
  msg \o <<128>> \o [i \in 1..((119 - (Len(msg) % 64)) % 64) |-> 0] \o <<0, 0, 0, 0>>
      \o <<((Len(msg) * 8) \div 16777216) % 256, ((Len(msg) * 8) \div 65536) % 256,
           ((Len(msg) * 8) \div 256) % 256, (Len(msg) * 8) % 256>>

WordAt(bytes, i) == <<bytes[i] * 256 + bytes[i + 1], bytes[i + 2] * 256 + bytes[i + 3]>>

\* The message schedule: words lo..hi appended to w (w holds words 1..lo-1).
RECURSIVE Schedule(_, _, _)
Schedule(w, lo, hi) ==
  IF Len(w) = 0 THEN w
  ELSE IF lo = hi
  THEN Append(w, Sum4(SmallSigma1(w[lo - 2]), w[lo - 7], SmallSigma0(w[lo - 15]), w[lo - 16]))
  ELSE Schedule(Schedule(w, lo, (lo + hi) \div 2), ((lo + hi) \div 2) + 1, hi)

RoundOut(s, t1, t2) ==
  <<WNorm(t1[1] + t2[1], t1[2] + t2[2]), s[1], s[2], s[3],
    WNorm(s[4][1] + t1[1], s[4][2] + t1[2]), s[5], s[6], s[7]>>

Round(s, wt, kt) ==
  RoundOut(s,
           Sum4(WNorm(s[8][1] + wt[1], s[8][2] + wt[2]), BigSigma1(s[5]), Ch(s[5], s[6], s[7]), kt),
           Sum4(BigSigma0(s[1]), Maj(s[1], s[2], s[3]), <<0, 0>>, <<0, 0>>))

\* Rounds lo..hi of the compression function on the working state s.
RECURSIVE Rounds(_, _, _, _)
Rounds(s, w, lo, hi) ==
  IF Len(s) = 0 THEN s
  ELSE IF lo = hi THEN Round(s, w[lo], SHA256_K[lo])
  ELSE Rounds(Rounds(s, w, lo, (lo + hi) \div 2), w, ((lo + hi) \div 2) + 1, hi)

AddState(h, s) == [i \in 1..8 |-> WNorm(h[i][1] + s[i][1], h[i][2] + s[i][2])]

Compress(h, block) ==
  AddState(h, Rounds(h, Schedule([i \in 1..16 |-> WordAt(block, 4 * i - 3)], 17, 64), 1, 64))

RECURSIVE Blocks(_, _, _)
Blocks(h, bytes, k) ==
  IF 64 * k >= Len(bytes) \/ Len(h) = 0 THEN h
  ELSE Blocks(Compress(h, SubSeq(bytes, 64 * k + 1, 64 * k + 64)), bytes, k + 1)

WordBytes(w) == <<w[1] \div 256, w[1] % 256, w[2] \div 256, w[2] % 256>>

StateBytes(h) ==
  WordBytes(h[1]) \o WordBytes(h[2]) \o WordBytes(h[3]) \o WordBytes(h[4])
    \o WordBytes(h[5]) \o WordBytes(h[6]) \o WordBytes(h[7]) \o WordBytes(h[8])

\* createHash('sha256').update(msg).digest()
sha256(msg) == StateBytes(Blocks(SHA256_H0, Pad(msg), 0))

(***************************************************************************)
(* Results of calls: a value, or a thrown error with its message.          *)
(***************************************************************************)
Returned(v) == [ok |-> TRUE, val |-> v, msg |-> ""]
Thrown(m) == [ok |-> FALSE, val |-> <<>>, msg |-> m]

(***************************************************************************)
(* src/src/Verifier.ts                                                     *)
(***************************************************************************)
\* (b << 24 >> 24): the byte read as a signed 8-bit number.
SignedByte(b) == IF b >= 128 THEN b - 256 ELSE b

\* compareFrom with the bytes read as unsigned (0..255).
RECURSIVE compareFrom_Unsigned(_, _, _)
compareFrom_Unsigned(hash1, hash2, i) ==
  IF i < 0 THEN 0
  ELSE IF hash1[i + 1] - hash2[i + 1] # 0
       THEN hash1[i + 1] - hash2[i + 1]
       ELSE compareFrom_Unsigned(hash1, hash2, i - 1)

\* compareFrom with the difference itself truncated to a signed byte.
RECURSIVE compareFrom_TruncatedDifference(_, _, _)
compareFrom_TruncatedDifference(hash1, hash2, i) ==
  IF i < 0 THEN 0
  ELSE IF SignedByte(hash1[i + 1]) - SignedByte(hash2[i + 1]) # 0
       THEN SignedByte((SignedByte(hash1[i + 1]) - SignedByte(hash2[i + 1]) + 256) % 256)
       ELSE compareFrom_TruncatedDifference(hash1, hash2, i - 1)

\* The loop of compareHashValues, from JavaScript index i down to 0.
RECURSIVE compareFrom(_, _, _)
compareFrom(hash1, hash2, i) ==
  IF i < 0 THEN 0
  ELSE IF SignedByte(hash1[i + 1]) - SignedByte(hash2[i + 1]) # 0
       THEN SignedByte(hash1[i + 1]) - SignedByte(hash2[i + 1])
       ELSE compareFrom(hash1, hash2, i - 1)

compareHashValues(hash1, hash2) ==
  IF Len(hash1) # HASH_LENGTH \/ Len(hash2) # HASH_LENGTH
  THEN Thrown("Invalid hash.")
  ELSE Returned(compareFrom(hash1, hash2, Len(hash1) - 1))

concatenate(a1, a2) == a1 \o a2

\* joinHashesPairwise without the ordering: h1 always first.
joinHashesPairwise_ArgumentOrder(h1, h2) ==
  IF Len(h1) = 0 THEN Returned(h2)
  ELSE IF Len(h2) = 0 THEN Returned(h1)
  ELSE IF ~compareHashValues(h1, h2).ok THEN compareHashValues(h1, h2)
  ELSE Returned(sha256(concatenate(h1, h2)))

\* joinHashesPairwise with the ordering reversed: the larger operand first.
joinHashesPairwise_LargerFirst(h1, h2) ==
  IF Len(h1) = 0 THEN Returned(h2)
  ELSE IF Len(h2) = 0 THEN Returned(h1)
  ELSE IF ~compareHashValues(h1, h2).ok THEN compareHashValues(h1, h2)
  ELSE IF compareHashValues(h1, h2).val > 0
       THEN Returned(sha256(concatenate(h1, h2)))
       ELSE Returned(sha256(concatenate(h2, h1)))

\* joinHashesPairwise without the two zero-length cases.
joinHashesPairwise_NoEmptyCase(h1, h2) ==
  IF ~compareHashValues(h1, h2).ok THEN compareHashValues(h1, h2)
  ELSE IF compareHashValues(h1, h2).val < 0
       THEN Returned(sha256(concatenate(h1, h2)))
       ELSE Returned(sha256(concatenate(h2, h1)))

joinHashesPairwise(h1, h2) ==
  IF Len(h1) = 0 THEN Returned(h2)
  ELSE IF Len(h2) = 0 THEN Returned(h1)
  ELSE IF ~compareHashValues(h1, h2).ok THEN compareHashValues(h1, h2)
  ELSE IF compareHashValues(h1, h2).val < 0
       THEN Returned(sha256(concatenate(h1, h2)))
       ELSE Returned(sha256(concatenate(h2, h1)))

\* internalHashes.reduce(joinHashesPairwise, leafHash): element i (JavaScript
\* index i - 1) onwards, acc being the accumulated result so far.
RECURSIVE reduceFrom(_, _, _)
reduceFrom(internalHashes, acc, i) ==
  IF ~acc.ok \/ i > Len(internalHashes) THEN acc
  ELSE reduceFrom(internalHashes, joinHashesPairwise(acc.val, internalHashes[i]), i + 1)

\* calculateRootHashFromInternalHash folding from the last proof element.
calculateRootHashFromInternalHash_RightToLeft(internalHashes, leafHash) ==
  reduceFrom([i \in 1..Len(internalHashes) |-> internalHashes[Len(internalHashes) + 1 - i]],
             Returned(leafHash), 1)

calculateRootHashFromInternalHash(internalHashes, leafHash) ==
  reduceFrom(internalHashes, Returned(leafHash), 1)

(***************************************************************************)
(* Base64 text.  A string is the sequence of its characters' alphabet      *)
(* indexes 0..63, with 64 for the padding character '='.                   *)
(***************************************************************************)
\* ByteAt keeping only the low four bits of the byte.
ByteAt_LowNibble(bytes, k) == IF k <= Len(bytes) THEN bytes[k] % 16 ELSE 0

ByteAt(bytes, k) == IF k <= Len(bytes) THEN bytes[k] ELSE 0

\* Character j (1-based) of the encoding: group g = (j - 1) \div 4 covers
\* bytes 3g + 1 .. 3g + 3.
Base64Char(bytes, j, g, p) ==
  IF p = 0 THEN bytes[3 * g + 1] \div 4
  ELSE IF p = 1 THEN (bytes[3 * g + 1] % 4) * 16 + (ByteAt(bytes, 3 * g + 2) \div 16)
  ELSE IF p = 2 THEN (IF 3 * g + 2 > Len(bytes) THEN 64
                      ELSE (bytes[3 * g + 2] % 16) * 4 + (ByteAt(bytes, 3 * g + 3) \div 64))
  ELSE (IF 3 * g + 3 > Len(bytes) THEN 64 ELSE bytes[3 * g + 3] % 64)

toBase64(bytes) ==
  [j \in 1..(4 * ((Len(bytes) + 2) \div 3)) |-> Base64Char(bytes, j, (j - 1) \div 4, (j - 1) % 4)]

Base64Pads(str) ==
  IF Len(str) = 0 THEN 0
  ELSE IF str[Len(str) - 1] = 64 THEN 2
  ELSE IF str[Len(str)] = 64 THEN 1 ELSE 0

\* Byte k (1-based) of the decoding: group g = (k - 1) \div 3.
Base64Byte(str, g, p) ==
  IF p = 0 THEN str[4 * g + 1] * 4 + (str[4 * g + 2] \div 16)
  ELSE IF p = 1 THEN (str[4 * g + 2] % 16) * 16 + (str[4 * g + 3] \div 4)
  ELSE (str[4 * g + 3] % 4) * 64 + str[4 * g + 4]

\* Buffer.from(str, 'base64'), and the bytes of an Ion blob {{str}}.
fromBase64(str) ==
  [k \in 1..(3 * (Len(str) \div 4) - Base64Pads(str)) |-> Base64Byte(str, (k - 1) \div 3, (k - 1) % 3)]

\* A ValueHolder whose IonText is a list of blobs: [{{...}}, {{...}}].
ProofHolder(hashes) == [IonText |-> [i \in 1..Len(hashes) |-> toBase64(hashes[i])]]

\* parseProof losing the last hash of the list.
parseProof_WithoutLast(valueHolder) ==
  [i \in 1..(Len(valueHolder.IonText) - 1) |-> fromBase64(valueHolder.IonText[i])]

parseProof(valueHolder) ==
  [i \in 1..Len(valueHolder.IonText) |-> fromBase64(valueHolder.IonText[i])]

buildCandidateDigest(proof, leafHash) ==
  calculateRootHashFromInternalHash(parseProof(proof), leafHash)

\* digestEquals comparing only the first 40 characters of the two texts.
digestEquals_Prefix(digest, candidateDigest) ==
  IF ~candidateDigest.ok THEN candidateDigest
  ELSE Returned(/\ Len(digest) = Len(toBase64(candidateDigest.val))
                /\ \A j \in 1..Len(digest) :
                     j <= 40 => digest[j] = toBase64(candidateDigest.val)[j])

\* The comparison that ends verifyDocumentMetadata; an error raised while the
\* candidate was built goes on to the caller.
digestEquals(digest, candidateDigest) ==
  IF ~candidateDigest.ok THEN candidateDigest
  ELSE Returned(digest = toBase64(candidateDigest.val))

verifyDocumentMetadata(documentHash, digest, proof) ==
  digestEquals(digest, buildCandidateDigest(proof, documentHash))


\* XorBit with the bit set (OR) instead of flipped.
XorBit_SetBit(b, bitShift) == IF Bit(b, bitShift) = 1 THEN b ELSE b + 2 ^ bitShift

\* flipRandomBit with its two random draws, bytePos and bitShift, as inputs.
XorBit(b, bitShift) == IF Bit(b, bitShift) = 1 THEN b - 2 ^ bitShift ELSE b + 2 ^ bitShift

flipRandomBit(original, bytePos, bitShift) ==
  IF Len(original) = 0 THEN Thrown("Array cannot be empty!")
  ELSE Returned([original EXCEPT ![bytePos + 1] = XorBit(@, bitShift)])

\* The memory after flipRandomBit was called with the array at address:
\* alteredHash = original names the same array a second time, so the
\* assignment to alteredHash[bytePos] writes the array passed, and the
\* array returned is that array.
flipRandomBitAt(memory, address, bytePos, bitShift) ==
  IF Len(memory[address]) = 0 THEN memory
  ELSE [memory EXCEPT ![address] = flipRandomBit(memory[address], bytePos, bitShift).val]

(***************************************************************************)
(* The ledger service (Amazon QLDB) behind getRevision and getDigest: an   *)
(* append-only journal of blocks, one document revision per block, block   *)
(* k of the journal having sequenceNo k - 1.  The digest at a tip is the   *)
(* root of the Merkle tree over the revision hashes up to that tip, and a  *)
(* proof is the list of sibling hashes from the leaf to the root.          *)
(***************************************************************************)
DocumentIds == {"d1", "d2"}

StrandId == "s1"

DocByte(id) == IF id = "d1" THEN 1 ELSE 2

\* The ledger's hash of a revision, over its document id and version.
LedgerRevisionHash(id, version) == sha256(<<DocByte(id), version>>)

LedgerRevisionCount(blocks, id) == Cardinality({k \in 1..Len(blocks) : blocks[k].id = id})

\* a < b for 32-byte hashes read as little-endian numbers of signed bytes.
LedgerLess(a, b) ==
  \E i \in 1..HASH_LENGTH :
    /\ (a[i] + 128) % 256 < (b[i] + 128) % 256
    /\ \A j \in (i + 1)..HASH_LENGTH : a[j] = b[j]

\* The hash of an inner node of the ledger's tree.
LedgerDot(a, b) == IF LedgerLess(a, b) THEN sha256(a \o b) ELSE sha256(b \o a)

\* The largest power of two below n (n >= 2), searched upwards from k.
RECURSIVE SplitPoint(_, _)
SplitPoint(n, k) == IF 2 * k >= n THEN k ELSE SplitPoint(n, 2 * k)

RECURSIVE MerkleRoot(_)
MerkleRoot(leaves) ==
  IF Len(leaves) = 1 THEN leaves[1]
  ELSE LedgerDot(MerkleRoot(SubSeq(leaves, 1, SplitPoint(Len(leaves), 1))),
                 MerkleRoot(SubSeq(leaves, SplitPoint(Len(leaves), 1) + 1, Len(leaves))))

\* The sibling hashes on the way from leaf m (1-based) up to the root.
RECURSIVE MerklePath(_, _)
MerklePath(m, leaves) ==
  IF Len(leaves) = 1 THEN <<>>
  ELSE IF m <= SplitPoint(Len(leaves), 1)
  THEN Append(MerklePath(m, SubSeq(leaves, 1, SplitPoint(Len(leaves), 1))),
              MerkleRoot(SubSeq(leaves, SplitPoint(Len(leaves), 1) + 1, Len(leaves))))
  ELSE Append(MerklePath(m - SplitPoint(Len(leaves), 1),
                         SubSeq(leaves, SplitPoint(Len(leaves), 1) + 1, Len(leaves))),
              MerkleRoot(SubSeq(leaves, 1, SplitPoint(Len(leaves), 1))))

LeafHashes(blocks) == [k \in 1..Len(blocks) |-> blocks[k].hash]

(***************************************************************************)
(* Ion text of a block address: the struct's fields in the order written   *)
(* and whether it is written without blanks, as the service writes it      *)
(* ({strandId:"s",sequenceNo:46}), or with them, as the library does.      *)
(***************************************************************************)
AddressText(strandId, sequenceNo, compact) ==
  [IonText |-> [fields |-> <<<<"strandId", strandId>>, <<"sequenceNo", sequenceNo>>>>,
                compact |-> compact]]

\* dom.load(valueHolder.IonText).get(name)
IonField(valueHolder, name) ==
  valueHolder.IonText.fields[
    CHOOSE k \in 1..Len(valueHolder.IonText.fields) : valueHolder.IonText.fields[k][1] = name][2]

\* src/unnamed/part_007
blockAddressToValueHolder(value) ==
  AddressText(value.blockAddress.strandId, value.blockAddress.sequenceNo, FALSE)

\* src/src/Util.ts: the pretty-printed Ion text, in which blanks and line breaks
\* are the writer's own and the fields keep the order they were read in.
valueHolderToString(valueHolder) == valueHolder.IonText.fields

(***************************************************************************)
(* State.  fn is the function being called ("none" between calls), args    *)
(* its arguments and ret what its caller gets; inner is, for               *)
(* verifyLedgerMetadata, the outcome of verifyDocumentMetadataWithUserData *)
(* under it and the calls that one made.  journal, digests and proofs are  *)
(* the ledger; userMeta is the metadata the caller holds (none, or one).   *)
(* table and tableState are the store's table and what the store knows of  *)
(* its existence.  heap holds the objects that the call passed by          *)
(* reference or allocated, by address, as they are when the call is over.  *)
(* pc is the position of a store call that is in flight.                   *)
(***************************************************************************)
VARIABLES fn, args, ret, inner, journal, digests, proofs, userMeta, table, tableState, heap, pc

vars == <<fn, args, ret, inner, journal, digests, proofs, userMeta, table, tableState, heap, pc>>

\* Longest journal.
MaxBlocks == 3

\* Longest proof (list of internal hashes) handed to the verifier functions.
MaxProofLen == 2

NoResult == [ok |-> TRUE, val |-> <<>>, msg |-> "none"]

NoInner == [result |-> NoResult, calls |-> <<>>]

\* No call of the store is in flight.
Idle == [at |-> "none", cycles |-> 0]

\* The service's answer to GetDigest when its digest covers blocks 0..tip.
LedgerGetDigest(tip) ==
  [Digest |-> digests[tip + 1], DigestTipAddress |-> AddressText(StrandId, tip, TRUE)]

LedgerRevision(sequenceNo, tip) ==
  [Revision |-> [blockAddress |-> [strandId |-> StrandId, sequenceNo |-> sequenceNo],
                 hash |-> journal[sequenceNo + 1].hash,
                 metadata |-> [id |-> journal[sequenceNo + 1].id,
                               version |-> journal[sequenceNo + 1].version]],
   Proof |-> ProofHolder(proofs[tip + 1][sequenceNo + 1])]

\* The service's answer to GetRevision: the revision of the document in the
\* block asked for, with its proof against the digest at the tip asked for.
LedgerGetRevision(documentId, blockAddress, digestTipAddress) ==
  IF \/ IonField(blockAddress, "strandId") # StrandId
     \/ IonField(digestTipAddress, "strandId") # StrandId
     \/ IonField(blockAddress, "sequenceNo") \notin 0..(Len(journal) - 1)
     \/ IonField(digestTipAddress, "sequenceNo")
          \notin IonField(blockAddress, "sequenceNo")..(Len(journal) - 1)
     \/ journal[IonField(blockAddress, "sequenceNo") + 1].id # documentId
  THEN Thrown("getRevision")
  ELSE Returned(LedgerRevision(IonField(blockAddress, "sequenceNo"),
                               IonField(digestTipAddress, "sequenceNo")))

\* src/src/GetRevision.ts
getRevision(documentId, blockAddress, digestTipAddress) ==
  LedgerGetRevision(documentId, blockAddress, digestTipAddress)

OtherDocumentId(id) == IF id = "d1" THEN "d2" ELSE "d1"

OtherStrandId(id) == IF id = "s1" THEN "s2" ELSE "s1"

\* What may come back from the remote call besides the ledger's own answer:
\* the answer with one of its parts changed.
AlteredResponses(r) ==
  { [r EXCEPT !.Revision.metadata.id = OtherDocumentId(@)],
    [r EXCEPT !.Revision.blockAddress.sequenceNo = @ + 1],
    [r EXCEPT !.Revision.blockAddress.strandId = OtherStrandId(@)],
    [r EXCEPT !.Revision.hash = flipRandomBit(@, 0, 0).val],
    [r EXCEPT !.Proof = IF Len(@.IonText) = 0 THEN ProofHolder(<<r.Revision.hash>>)
                        ELSE [IonText |-> SubSeq(@.IonText, 1, Len(@.IonText) - 1)]] }

GetRevisionResponses(answer) ==
  IF answer.ok THEN {answer} \cup {Returned(r) : r \in AlteredResponses(answer.val)}
  ELSE {answer}

(***************************************************************************)
(* src/unnamed/part_008 (GetMetadata.ts).  A key names one document; the   *)
(* committed view holds the latest revision of each document.              *)
(***************************************************************************)
lookupBlockAddressAndDocIdForKey(key) ==
  IF \E k \in 1..Len(journal) : journal[k].id = key
  THEN <<[blockAddress |-> [strandId |-> StrandId,
                            sequenceNo |-> (CHOOSE k \in 1..Len(journal) :
                                              /\ journal[k].id = key
                                              /\ \A j \in (k + 1)..Len(journal) : journal[j].id # key) - 1],
          id |-> key]>>
  ELSE <<>>

\* Lines 116-137: the digest, asked for again once when the first one's tip is
\* behind the block; tip1 and tip2 are the tips of the two answers.
digestFor(blockAddress, tip1, tip2) ==
  IF tip1 < IonField(blockAddress, "sequenceNo")
  THEN [Digest |-> toBase64(LedgerGetDigest(tip2).Digest),
        DigestTipAddress |-> LedgerGetDigest(tip2).DigestTipAddress]
  ELSE [Digest |-> toBase64(LedgerGetDigest(tip1).Digest),
        DigestTipAddress |-> LedgerGetDigest(tip1).DigestTipAddress]

\* Lines 154-175.
metadataFrom(blockAddress, documentId, digest, revisionResponse) ==
  IF ~revisionResponse.ok THEN revisionResponse
  ELSE Returned([LedgerName |-> "ledger",
                 TableName |-> "table",
                 BlockAddress |-> blockAddress,
                 DocumentId |-> documentId,
                 RevisionHash |-> toBase64(revisionResponse.val.Revision.hash),
                 Proof |-> revisionResponse.val.Proof,
                 LedgerDigest |-> digest])

metadataFor(blockAddress, documentId, digest) ==
  metadataFrom(blockAddress, documentId, digest,
               getRevision(documentId, blockAddress, digest.DigestTipAddress))

getDocumentLedgerMetadata(key, tip1, tip2) ==
  IF Len(lookupBlockAddressAndDocIdForKey(key)) = 0
  THEN Thrown("Unable to find block address and document id")
  ELSE metadataFor(blockAddressToValueHolder(lookupBlockAddressAndDocIdForKey(key)[Len(lookupBlockAddressAndDocIdForKey(key))]),
                   lookupBlockAddressAndDocIdForKey(key)[Len(lookupBlockAddressAndDocIdForKey(key))].id,
                   digestFor(blockAddressToValueHolder(lookupBlockAddressAndDocIdForKey(key)[Len(lookupBlockAddressAndDocIdForKey(key))]),
                             tip1, tip2))

\* The optional parameter ledgerDigest of getDocumentLedgerMetadata.
NoDigest == [given |-> FALSE, digest |-> <<>>]

PassedDigest(digest) == [given |-> TRUE, digest |-> digest]

\* The digest steps with a third fetch when the second digest is behind too.
digestCalls_FetchUntilCaughtUp(blockAddress, ledgerDigest, tip1, tip2) ==
  IF ledgerDigest.given THEN <<>>
  ELSE IF tip1 >= IonField(blockAddress, "sequenceNo") THEN <<"getLedgerDigest">>
  ELSE IF tip2 >= IonField(blockAddress, "sequenceNo")
  THEN <<"getLedgerDigest", "sleep(100)", "getLedgerDigest">>
  ELSE <<"getLedgerDigest", "sleep(100)", "getLedgerDigest", "sleep(100)", "getLedgerDigest">>

\* Lines 116-128 and 220-229: the calls made on the way to the digest, the
\* service answering the first getLedgerDigest with its digest at tip1 and
\* the second with its digest at tip2.
digestCalls(blockAddress, ledgerDigest, tip1, tip2) ==
  IF ledgerDigest.given THEN <<>>
  ELSE IF tip1 < IonField(blockAddress, "sequenceNo")
  THEN <<"getLedgerDigest", "sleep(100)", "getLedgerDigest">>
  ELSE <<"getLedgerDigest">>

\* What a metadata function did: its result, its calls, the sequenceNo of the
\* block found, and the tips of the digests the service had to offer.
MetadataOutcome(result, calls, sequenceNo, tips) ==
  [result |-> result, calls |-> calls, sequenceNo |-> sequenceNo, tips |-> tips]

\* Lines 109-175 and 213-276, found being the block address and document id
\* that the lookup returned.
metadataOutcome(lookup, found, ledgerDigest, tip1, tip2) ==
  MetadataOutcome(
    metadataFor(blockAddressToValueHolder(found), found.id,
                IF ledgerDigest.given THEN ledgerDigest.digest
                ELSE digestFor(blockAddressToValueHolder(found), tip1, tip2)),
    <<lookup>> \o digestCalls(blockAddressToValueHolder(found), ledgerDigest, tip1, tip2)
      \o <<"getRevision">>,
    found.blockAddress.sequenceNo, <<tip1, tip2>>)

\* getDocumentLedgerMetadata with the calls it makes and its parameter
\* ledgerDigest.
getDocumentLedgerMetadataWith(key, ledgerDigest, tip1, tip2) ==
  IF Len(lookupBlockAddressAndDocIdForKey(key)) = 0
  THEN MetadataOutcome(Thrown("Unable to find block address and document id"),
                       <<"lookupBlockAddressAndDocIdForKey">>, -1, <<tip1, tip2>>)
  ELSE metadataOutcome("lookupBlockAddressAndDocIdForKey",
         lookupBlockAddressAndDocIdForKey(key)[Len(lookupBlockAddressAndDocIdForKey(key))],
         ledgerDigest, tip1, tip2)

\* The revision of the document that transaction transactionId committed;
\* the transaction of block k is k.
getRevisionMetadataByDocIdAndTxId(documentId, transactionId) ==
  IF transactionId \in 0..(Len(journal) - 1) /\ journal[transactionId + 1].id = documentId
  THEN <<[blockAddress |-> [strandId |-> StrandId, sequenceNo |-> transactionId],
          id |-> documentId]>>
  ELSE <<>>

getDocumentLedgerMetadataByDocIdAndTxId(documentId, transactionId, tip1, tip2) ==
  IF Len(getRevisionMetadataByDocIdAndTxId(documentId, transactionId)) = 0
  THEN MetadataOutcome(Thrown("Unable to find revision metadata"),
                       <<"getRevisionMetadataByDocIdAndTxId">>, -1, <<tip1, tip2>>)
  ELSE metadataOutcome("getRevisionMetadataByDocIdAndTxId",
         getRevisionMetadataByDocIdAndTxId(documentId, transactionId)[1],
         NoDigest, tip1, tip2)

(***************************************************************************)
(* The revision hash check of VerifyRevisionHash.ts.  A JavaScript value   *)
(* is a record [type, text, fields], fields being the set of the           *)
(* attributes <<name, value>> of an object.  A revision is                 *)
(* [data, metadata, hash], hash being base64 text.                         *)
(***************************************************************************)
KEY_ATTRIBUTE_NAME == "_k"

VALUE_ATTRIBUTE_NAME == "_v"

Str(s) == [type |-> "string", text |-> s, fields |-> {}]

Num(t) == [type |-> "number", text |-> t, fields |-> {}]

Obj(fs) == [type |-> "object", text |-> "", fields |-> fs]

Undefined == [type |-> "undefined", text |-> "", fields |-> {}]

Null == [type |-> "null", text |-> "", fields |-> {}]

\* The UTF-8 bytes of the texts that the revisions of the model hold.
Utf8(text) ==
  CASE text = "_k" -> <<95, 107>>
    [] text = "_v" -> <<95, 118>>
    [] text = "_val" -> <<95, 118, 97, 108>>
    [] text = "id" -> <<105, 100>>
    [] text = "version" -> <<118, 101, 114, 115, 105, 111, 110>>
    [] text = "txTime" -> <<116, 120, 84, 105, 109, 101>>
    [] text = "txId" -> <<116, 120, 73, 100>>
    [] text = "k1" -> <<107, 49>>
    [] text = "k2" -> <<107, 50>>
    [] text = "d1" -> <<100, 49>>
    [] text = "t1" -> <<116, 49>>
    [] text = "0" -> <<48>>
    [] text = "1" -> <<49>>
    [] text = "2021T" -> <<50, 48, 50, 49, 84>>
    [] text = "MyValue1" -> <<77, 121, 86, 97, 108, 117, 101, 49>>
    [] text = "EvilValue" -> <<69, 118, 105, 108, 86, 97, 108, 117, 101>>
    [] OTHER -> <<>>

\* The type byte of the Ion value that generateIonHash writes for a key:
\* writeTimestamp for txTime, writeInt for version, writeString otherwise.
IonTypeByte(key) ==
  IF key = "txTime" THEN 96 ELSE IF key = "version" THEN 32 ELSE 128

\* One field as the hash reader sees it: the field name as a symbol, then
\* the value with its type, each between a begin and an end marker.
IonFieldBytes(field) ==
  <<11, 112>> \o Utf8(field[1]) \o <<14, 11, IonTypeByte(field[1])>> \o Utf8(field[2].text) \o <<14>>

\* a before b in the bytewise order of sequences.
BytesBefore(a, b) ==
  \E i \in 1..Len(b) :
    /\ \A j \in 1..(i - 1) : j <= Len(a) /\ a[j] = b[j]
    /\ (i > Len(a) \/ a[i] < b[i])

\* The fields of a struct in bytewise order one after another: the Ion hash
\* of a struct does not depend on the order its fields were written in.
RECURSIVE SortedFieldBytes(_)
SortedFieldBytes(fieldBytes) ==
  IF fieldBytes = {} THEN <<>>
  ELSE (CHOOSE f \in fieldBytes : \A g \in fieldBytes \ {f} : BytesBefore(f, g))
       \o SortedFieldBytes(fieldBytes \ {CHOOSE f \in fieldBytes : \A g \in fieldBytes \ {f} : BytesBefore(f, g)})

\* JSON.parse(JSON.stringify(undefined)) throws; the struct written from the
\* object's own keys is hashed with SHA-256.
generateIonHash(json) ==
  IF json.type = "undefined" THEN Thrown("Unexpected token u in JSON at position 0")
  ELSE Returned(sha256(<<11, 208>> \o SortedFieldBytes({IonFieldBytes(f) : f \in json.fields}) \o <<14>>))

\* validateRevisionHash with the data left out of the candidate hash.
validateRevisionHash_MetadataOnly(revision, metadataDigest, dataDigest) ==
  IF ~metadataDigest.ok THEN metadataDigest
  ELSE IF ~dataDigest.ok THEN dataDigest
  ELSE Returned(toBase64(joinHashesPairwise(<<>>, metadataDigest.val).val) = revision.hash)

\* validateRevisionHash after its two digests are computed;
\* joinHashesPairwise of VerifyRevisionHash.ts is that of Verifier.ts.
validateRevisionHashOf(revision, metadataDigest, dataDigest) ==
  IF ~metadataDigest.ok THEN metadataDigest
  ELSE IF ~dataDigest.ok THEN dataDigest
  ELSE Returned(toBase64(joinHashesPairwise(dataDigest.val, metadataDigest.val).val) = revision.hash)

validateRevisionHash(revision) ==
  validateRevisionHashOf(revision, generateIonHash(revision.metadata), generateIonHash(revision.data))

verifyDocumentRevisionHashOf(validated) ==
  IF validated.ok THEN validated ELSE Thrown("Could not verify document revision hash")

verifyDocumentRevisionHash(documentRevision) ==
  verifyDocumentRevisionHashOf(validateRevisionHash(documentRevision))

(***************************************************************************)
(* The verifier functions called one at a time on chosen inputs.           *)
(***************************************************************************)
TestHash(first, last) ==
  [i \in 1..HASH_LENGTH |-> IF i = 1 THEN first ELSE IF i = HASH_LENGTH THEN last ELSE 7]

\* 32-byte values that differ in the first byte, in the last byte, or in both,
\* across the sign boundary of a byte.
HashInputs == {TestHash(f, l) : f \in {1, 200}, l \in {1, 200}}

ShortHash == [i \in 1..(HASH_LENGTH - 1) |-> 7]

Operands == HashInputs \cup {<<>>, ShortHash}

\* 32-byte values whose first and last bytes take the extreme signed and
\* unsigned byte values, for the comparison alone (it computes no digest).
CompareInputs == {TestHash(f, l) : f \in {0, 127, 128, 255}, l \in {0, 127, 128, 255}}

CompareOperands == Operands \cup CompareInputs

\* Arrays handed to flipRandomBit: hashes, a shorter array, one-byte arrays
\* and the empty array.
FlipInputs == Operands \cup {<<0>>, <<255>>}

ProofElements == {TestHash(1, 200), TestHash(200, 1), <<>>}

RECURSIVE SeqsUpTo(_, _)
SeqsUpTo(S, n) ==
  IF n = 0 THEN {<<>>}
  ELSE SeqsUpTo(S, n - 1) \cup {Append(s, e) : s \in {t \in SeqsUpTo(S, n - 1) : Len(t) = n - 1}, e \in S}

ProofInputs == SeqsUpTo(ProofElements, MaxProofLen)

LeafInputs == {TestHash(1, 1), TestHash(200, 200), ShortHash}

\* A revision as getDocumentRevisionByLedgerMetadata returns it for a string
\* value of the store, with the hash the ledger holds for it.
RevisionData(key, value) ==
  Obj({<<KEY_ATTRIBUTE_NAME, Str(key)>>, <<VALUE_ATTRIBUTE_NAME, Str(value)>>})

RevisionMetadata(version) ==
  Obj({<<"id", Str("d1")>>, <<"version", Num(version)>>,
       <<"txTime", Str("2021T")>>, <<"txId", Str("t1")>>})

LedgerRevisionHashText(data, metadata) ==
  toBase64(LedgerDot(generateIonHash(data).val, generateIonHash(metadata).val))

LedgerDocumentRevision(key, value, version) ==
  [data |-> RevisionData(key, value),
   metadata |-> RevisionMetadata(version),
   hash |-> LedgerRevisionHashText(RevisionData(key, value), RevisionMetadata(version))]

\* Revisions as the ledger returned them, one with the hash of another
\* revision, and one that lost its metadata.
RevisionInputs ==
  { LedgerDocumentRevision("k1", "MyValue1", "0"),
    LedgerDocumentRevision("k2", "MyValue1", "1"),
    [LedgerDocumentRevision("k1", "MyValue1", "0")
       EXCEPT !.hash = LedgerDocumentRevision("k2", "MyValue1", "1").hash],
    [LedgerDocumentRevision("k1", "MyValue1", "0") EXCEPT !.metadata = Undefined] }

\* documentRevision.data._val = "EvilValue", and the same for the attributes
\* that the data has.
DataChanges(data) ==
  { Obj({f \in data.fields : f[1] # name} \cup {<<name, Str("EvilValue")>>}) :
      name \in {"_val", KEY_ATTRIBUTE_NAME, VALUE_ATTRIBUTE_NAME} }
  \cup { Obj({f \in data.fields : f[1] # VALUE_ATTRIBUTE_NAME}) }

InitPure ==
  /\ fn = "none"
  /\ args = <<>>
  /\ ret = NoResult
  /\ inner = NoInner
  /\ journal = <<>>
  /\ digests = <<>>
  /\ proofs = <<>>
  /\ userMeta = <<>>
  /\ table = <<>>
  /\ tableState = "EXIST"
  /\ heap = <<>>
  /\ pc = Idle

CallCompareHashValues ==
  /\ fn = "none"
  /\ \E hash1 \in CompareOperands, hash2 \in CompareOperands :
       /\ fn' = "compareHashValues"
       /\ args' = <<hash1, hash2>>
       /\ ret' = compareHashValues(hash1, hash2)
  /\ UNCHANGED <<inner, journal, digests, proofs, userMeta, table, tableState, heap, pc>>

CallJoinHashesPairwise ==
  /\ fn = "none"
  /\ \E h1 \in Operands, h2 \in Operands :
       /\ fn' = "joinHashesPairwise"
       /\ args' = <<h1, h2>>
       /\ ret' = joinHashesPairwise(h1, h2)
  /\ UNCHANGED <<inner, journal, digests, proofs, userMeta, table, tableState, heap, pc>>

CallBuildCandidateDigest ==
  /\ fn = "none"
  /\ \E hashes \in ProofInputs, leafHash \in LeafInputs :
       /\ fn' = "buildCandidateDigest"
       /\ args' = <<ProofHolder(hashes), leafHash>>
       /\ ret' = buildCandidateDigest(ProofHolder(hashes), leafHash)
  /\ UNCHANGED <<inner, journal, digests, proofs, userMeta, table, tableState, heap, pc>>

\* Math.random() lies in [0, 1), so the byte position is any index of the
\* array and the shift any of 0 .. UPPER_BOUND - 1; the empty array leaves
\* no position to draw.
CallFlipRandomBit ==
  /\ fn = "none"
  /\ \E original \in FlipInputs :
       \E bytePos \in (IF Len(original) = 0 THEN {0} ELSE 0..(Len(original) - 1)),
          bitShift \in 0..(UPPER_BOUND - 1) :
         /\ fn' = "flipRandomBit"
         /\ args' = <<original, bytePos, bitShift>>
         /\ ret' = flipRandomBit(original, bytePos, bitShift)
         /\ heap' = flipRandomBitAt(<<original>>, 1, bytePos, bitShift)
  /\ UNCHANGED <<inner, journal, digests, proofs, userMeta, table, tableState, pc>>

CallVerifyDocumentRevisionHash ==
  /\ fn = "none"
  /\ \E documentRevision \in RevisionInputs :
       /\ fn' = "verifyDocumentRevisionHash"
       /\ args' = <<documentRevision>>
       /\ ret' = verifyDocumentRevisionHash(documentRevision)
  /\ UNCHANGED <<inner, journal, digests, proofs, userMeta, table, tableState, heap, pc>>

\* The caller changes the data of a revision that validated and has the
\* revision checked again; args[2] keeps the revision as it was.
VerifyChangedRevision ==
  /\ fn = "verifyDocumentRevisionHash"
  /\ ret.ok /\ ret.val = TRUE
  /\ \E data \in DataChanges(args[1].data) :
       /\ fn' = "verifyChangedRevision"
       /\ args' = <<[args[1] EXCEPT !.data = data], args[1]>>
       /\ ret' = verifyDocumentRevisionHash([args[1] EXCEPT !.data = data])
  /\ UNCHANGED <<inner, journal, digests, proofs, userMeta, table, tableState, heap, pc>>

\* The call is over; the caller goes on to its next call.
CallReturn ==
  /\ fn # "none"
  /\ pc = Idle
  /\ fn' = "none"
  /\ args' = <<>>
  /\ ret' = NoResult
  /\ inner' = NoInner
  /\ heap' = <<>>
  /\ UNCHANGED <<journal, digests, proofs, userMeta, table, tableState, pc>>

NextPure ==
  \/ CallCompareHashValues
  \/ CallJoinHashesPairwise
  \/ CallBuildCandidateDigest
  \/ CallFlipRandomBit
  \/ CallVerifyDocumentRevisionHash
  \/ VerifyChangedRevision
  \/ CallReturn

SpecPure == InitPure /\ [][NextPure]_vars

Is32(h) == Len(h) = HASH_LENGTH

(***************************************************************************)
(* The self-check that follows a successful verification: one random bit   *)
(* of the document (or block) hash, or of the digest, is flipped and the   *)
(* verification is repeated against the same proof.                        *)
(***************************************************************************)
\* Hash and proof pairs: no sibling, one sibling above the leaf, and two
\* siblings of which the first is below the leaf.
FlipCases ==
  { <<TestHash(1, 1), <<>>>>,
    <<TestHash(200, 200), <<TestHash(1, 200)>>>>,
    <<TestHash(1, 1), <<TestHash(200, 1), TestHash(1, 200)>>>> }

\* The digest the ledger holds for a hash and its proof, and one it does not.
DigestsFor(documentHash, hashes) ==
  { toBase64(calculateRootHashFromInternalHash(hashes, documentHash).val),
    toBase64(TestHash(200, 1)) }

CallVerifyDocumentMetadata ==
  /\ fn = "none"
  /\ \E c \in FlipCases :
       \E digest \in DigestsFor(c[1], c[2]) :
         /\ fn' = "verifyDocumentMetadata"
         /\ args' = <<c[1], digest, ProofHolder(c[2])>>
         /\ ret' = verifyDocumentMetadata(c[1], digest, ProofHolder(c[2]))
  /\ UNCHANGED <<inner, journal, digests, proofs, userMeta, table, tableState, heap, pc>>

\* VerifyDocument.ts: the document hash that has just verified is flipped
\* and verified again with the same digest and proof.
VerifyAlteredDocumentHash ==
  /\ fn = "verifyDocumentMetadata"
  /\ ret.ok /\ ret.val = TRUE
  /\ \E bytePos \in 0..(Len(args[1]) - 1), bitShift \in 0..(UPPER_BOUND - 1) :
       /\ fn' = "verifyAlteredDocumentHash"
       /\ args' = <<flipRandomBit(args[1], bytePos, bitShift).val, args[2], args[3],
                    args[1], bytePos, bitShift>>
       /\ ret' = verifyDocumentMetadata(flipRandomBit(args[1], bytePos, bitShift).val,
                                        args[2], args[3])
  /\ UNCHANGED <<inner, journal, digests, proofs, userMeta, table, tableState, heap, pc>>

\* verifyBlock: the digest bytes that have just verified are flipped, encoded
\* again, and the block hash is verified against them with the same proof.
VerifyAlteredDigest ==
  /\ fn = "verifyDocumentMetadata"
  /\ ret.ok /\ ret.val = TRUE
  /\ \E bytePos \in 0..(Len(fromBase64(args[2])) - 1), bitShift \in 0..(UPPER_BOUND - 1) :
       /\ fn' = "verifyAlteredDigest"
       /\ args' = <<args[1],
                    toBase64(flipRandomBit(fromBase64(args[2]), bytePos, bitShift).val),
                    args[3], args[2], bytePos, bitShift>>
       /\ ret' = verifyDocumentMetadata(
                   args[1],
                   toBase64(flipRandomBit(fromBase64(args[2]), bytePos, bitShift).val),
                   args[3])
  /\ UNCHANGED <<inner, journal, digests, proofs, userMeta, table, tableState, heap, pc>>

NextFlip ==
  \/ CallVerifyDocumentMetadata
  \/ VerifyAlteredDocumentHash
  \/ VerifyAlteredDigest
  \/ CallReturn

SpecFlip == InitPure /\ [][NextFlip]_vars

(***************************************************************************)
(* src/src/VerifyDocument.ts, verifyDocumentMetadataWithUserData.  The     *)
(* outcome is [result, calls]: what the function returns or throws, and    *)
(* the calls it made on the way.                                           *)
(***************************************************************************)
Outcome(result, calls) == [result |-> result, calls |-> calls]

\* verifyAsserted without the check of the document id.
verifyAsserted_NoIdCheck(user, revisionResponse) ==
  IF ~revisionResponse.ok
  THEN Outcome(revisionResponse, <<"getRevision">>)
  ELSE IF user.RevisionHash # toBase64(revisionResponse.val.Revision.hash)
  THEN Outcome(Thrown("Revision hashes do not match"), <<"getRevision">>)
  ELSE IF valueHolderToString(user.BlockAddress)
            # valueHolderToString(blockAddressToValueHolder(revisionResponse.val.Revision))
  THEN Outcome(Thrown("BlockAddresses do not match"), <<"getRevision">>)
  ELSE Outcome(verifyDocumentMetadata(fromBase64(user.RevisionHash), user.LedgerDigest.Digest,
                                      revisionResponse.val.Proof),
               <<"getRevision", "verifyDocumentMetadata">>)

\* verifyAsserted without the check of the revision hash.
verifyAsserted_NoHashCheck(user, revisionResponse) ==
  IF ~revisionResponse.ok
  THEN Outcome(revisionResponse, <<"getRevision">>)
  ELSE IF user.DocumentId # revisionResponse.val.Revision.metadata.id
  THEN Outcome(Thrown("Revision IDs do not match"), <<"getRevision">>)
  ELSE IF valueHolderToString(user.BlockAddress)
            # valueHolderToString(blockAddressToValueHolder(revisionResponse.val.Revision))
  THEN Outcome(Thrown("BlockAddresses do not match"), <<"getRevision">>)
  ELSE Outcome(verifyDocumentMetadata(fromBase64(user.RevisionHash), user.LedgerDigest.Digest,
                                      revisionResponse.val.Proof),
               <<"getRevision", "verifyDocumentMetadata">>)

\* verifyAsserted with the document id checked before the revision hash.
verifyAsserted_IdCheckFirst(user, revisionResponse) ==
  IF ~revisionResponse.ok
  THEN Outcome(revisionResponse, <<"getRevision">>)
  ELSE IF user.DocumentId # revisionResponse.val.Revision.metadata.id
  THEN Outcome(Thrown("Revision IDs do not match"), <<"getRevision">>)
  ELSE IF user.RevisionHash # toBase64(revisionResponse.val.Revision.hash)
  THEN Outcome(Thrown("Revision hashes do not match"), <<"getRevision">>)
  ELSE IF valueHolderToString(user.BlockAddress)
            # valueHolderToString(blockAddressToValueHolder(revisionResponse.val.Revision))
  THEN Outcome(Thrown("BlockAddresses do not match"), <<"getRevision">>)
  ELSE Outcome(verifyDocumentMetadata(fromBase64(user.RevisionHash), user.LedgerDigest.Digest,
                                      revisionResponse.val.Proof),
               <<"getRevision", "verifyDocumentMetadata">>)

\* verifyAsserted with the digest recomputed from the Proof of the user's
\* metadata instead of the proof that came with the revision.
verifyAsserted_UserProof(user, revisionResponse) ==
  IF ~revisionResponse.ok
  THEN Outcome(revisionResponse, <<"getRevision">>)
  ELSE IF user.RevisionHash # toBase64(revisionResponse.val.Revision.hash)
  THEN Outcome(Thrown("Revision hashes do not match"), <<"getRevision">>)
  ELSE IF user.DocumentId # revisionResponse.val.Revision.metadata.id
  THEN Outcome(Thrown("Revision IDs do not match"), <<"getRevision">>)
  ELSE IF valueHolderToString(user.BlockAddress)
            # valueHolderToString(blockAddressToValueHolder(revisionResponse.val.Revision))
  THEN Outcome(Thrown("BlockAddresses do not match"), <<"getRevision">>)
  ELSE Outcome(verifyDocumentMetadata(fromBase64(user.RevisionHash), user.LedgerDigest.Digest,
                                      user.Proof),
               <<"getRevision", "verifyDocumentMetadata">>)

\* Lines 122-159: the fetched revision against the user's metadata, then the
\* user's digest against the one recomputed from the user's hash.
verifyAsserted(user, revisionResponse) ==
  IF ~revisionResponse.ok
  THEN Outcome(revisionResponse, <<"getRevision">>)
  ELSE IF user.RevisionHash # toBase64(revisionResponse.val.Revision.hash)
  THEN Outcome(Thrown("Revision hashes do not match"), <<"getRevision">>)
  ELSE IF user.DocumentId # revisionResponse.val.Revision.metadata.id
  THEN Outcome(Thrown("Revision IDs do not match"), <<"getRevision">>)
  ELSE IF valueHolderToString(user.BlockAddress)
            # valueHolderToString(blockAddressToValueHolder(revisionResponse.val.Revision))
  THEN Outcome(Thrown("BlockAddresses do not match"), <<"getRevision">>)
  ELSE Outcome(verifyDocumentMetadata(fromBase64(user.RevisionHash), user.LedgerDigest.Digest,
                                      revisionResponse.val.Proof),
               <<"getRevision", "verifyDocumentMetadata">>)

\* Lines 172-180: the outcome once the altered hash has been checked.
alteredOutcome(asserted, verifiedAltered) ==
  IF ~verifiedAltered.ok
  THEN Outcome(verifiedAltered, asserted.calls \o <<"flipRandomBit", "verifyDocumentMetadata">>)
  ELSE IF verifiedAltered.val
  THEN Outcome(Thrown("Expected altered document hash to not be verified against digest."),
               asserted.calls \o <<"flipRandomBit", "verifyDocumentMetadata">>)
  ELSE Outcome(asserted.result, asserted.calls \o <<"flipRandomBit", "verifyDocumentMetadata">>)

\* Lines 161-180, asserted being the outcome of lines 122-159.
verifyDocumentMetadataWithUserData(user, revisionResponse, asserted, bytePos, bitShift) ==
  IF ~asserted.result.ok \/ asserted.calls = <<"getRevision">>
  THEN asserted
  ELSE IF ~asserted.result.val
  THEN Outcome(Thrown("Document revision is not verified."), asserted.calls)
  ELSE IF ~flipRandomBit(fromBase64(user.RevisionHash), bytePos, bitShift).ok
  THEN Outcome(flipRandomBit(fromBase64(user.RevisionHash), bytePos, bitShift),
               asserted.calls \o <<"flipRandomBit">>)
  ELSE alteredOutcome(asserted,
         verifyDocumentMetadata(flipRandomBit(fromBase64(user.RevisionHash), bytePos, bitShift).val,
                                user.LedgerDigest.Digest, revisionResponse.val.Proof))

\* verifyMemory with the altered hash written back to the metadata.
verifyMemory_HashWrittenBack(user, calls, bytePos, bitShift) ==
  IF \A k \in 1..Len(calls) : calls[k] # "flipRandomBit"
  THEN <<user>>
  ELSE <<[user EXCEPT !.RevisionHash =
            toBase64(flipRandomBit(fromBase64(user.RevisionHash), bytePos, bitShift).val)],
         flipRandomBit(fromBase64(user.RevisionHash), bytePos, bitShift).val>>

\* The memory when verifyDocumentMetadataWithUserData is over, calls being
\* the calls it made: the caller's metadata object at address 1, whose
\* fields are read (lines 116-120) and never assigned; from line 157 on the
\* buffer that Buffer.from(userRevisionHash, 'base64') allocated at address
\* 2, which is the array that flipRandomBit is called with at line 166.
verifyMemory(user, calls, bytePos, bitShift) ==
  IF \A k \in 1..Len(calls) : calls[k] # "verifyDocumentMetadata"
  THEN <<user>>
  ELSE IF \A k \in 1..Len(calls) : calls[k] # "flipRandomBit"
  THEN <<user, fromBase64(user.RevisionHash)>>
  ELSE flipRandomBitAt(<<user, fromBase64(user.RevisionHash)>>, 2, bytePos, bitShift)

\* src/unnamed/part_011 (QLDBKVS.ts), verifyLedgerMetadata: what the caller gets.
verifyLedgerMetadata(outcome) ==
  IF outcome.result.ok THEN outcome.result ELSE Thrown("Could not verify the metadta")

(***************************************************************************)
(* The metadata a caller may hand to verifyLedgerMetadata: what it holds,  *)
(* or that with some of its fields changed.                                *)
(***************************************************************************)
Tamperings ==
  SUBSET {"RevisionHash", "DocumentId", "FieldOrder", "Digest"}
    \cup {{"sequenceNo"}, {"strandId"}, {"Blanks"}}

TamperedAddress(address, t) ==
  IF "FieldOrder" \in t
  THEN [address EXCEPT !.IonText.fields = <<@[2], @[1]>>]
  ELSE IF "sequenceNo" \in t
  THEN AddressText(IonField(address, "strandId"), (IonField(address, "sequenceNo") + 1) % MaxBlocks,
                   address.IonText.compact)
  ELSE IF "strandId" \in t
  THEN AddressText(OtherStrandId(IonField(address, "strandId")), IonField(address, "sequenceNo"),
                   address.IonText.compact)
  ELSE IF "Blanks" \in t
  THEN [address EXCEPT !.IonText.compact = ~@]
  ELSE address

Tampered(m, t) ==
  [m EXCEPT
     !.RevisionHash = IF "RevisionHash" \in t
                      THEN toBase64(flipRandomBit(fromBase64(@), 0, 0).val) ELSE @,
     !.DocumentId = IF "DocumentId" \in t THEN OtherDocumentId(@) ELSE @,
     !.BlockAddress = TamperedAddress(@, t),
     !.LedgerDigest.Digest = IF "Digest" \in t
                             THEN toBase64(flipRandomBit(fromBase64(@), 0, 0).val) ELSE @]

\* The draws of flipRandomBit that are followed: the first bit of the first
\* byte and the last bit of the last byte.
FlipChoices == {<<0, 0>>, <<HASH_LENGTH - 1, UPPER_BOUND - 1>>}

(***************************************************************************)
(* The ledger, a caller with metadata, and verification.                   *)
(***************************************************************************)
InitVerify ==
  /\ fn = "none"
  /\ args = <<>>
  /\ ret = NoResult
  /\ inner = NoInner
  /\ journal = <<>>
  /\ digests = <<>>
  /\ proofs = <<>>
  /\ userMeta = <<>>
  /\ table = <<>>
  /\ tableState = "EXIST"
  /\ heap = <<>>
  /\ pc = Idle

\* A new revision of document id is committed (an upsert's transaction).
Committed(blocks) ==
  /\ journal' = blocks
  /\ digests' = Append(digests, MerkleRoot(LeafHashes(blocks)))
  /\ proofs' = Append(proofs, [k \in 1..Len(blocks) |-> MerklePath(k, LeafHashes(blocks))])

CommitRevision ==
  /\ fn = "none"
  /\ Len(journal) < MaxBlocks
  /\ \E id \in DocumentIds :
       Committed(Append(journal,
                        [id |-> id,
                         version |-> LedgerRevisionCount(journal, id),
                         hash |-> LedgerRevisionHash(id, LedgerRevisionCount(journal, id))]))
  /\ UNCHANGED <<fn, args, ret, inner, userMeta, table, tableState, heap, pc>>

\* src/unnamed/part_011 (QLDBKVS.ts), getMetadata: what the caller gets.
getMetadata(metadata) ==
  IF metadata.ok THEN metadata ELSE Thrown("Could not get metadata")

GotMetadata(name, arguments, outcome, result) ==
  /\ fn' = name
  /\ args' = arguments
  /\ inner' = outcome
  /\ ret' = result
  /\ userMeta' = IF outcome.result.ok THEN <<outcome.result.val>> ELSE userMeta
  /\ UNCHANGED <<journal, digests, proofs, table, tableState, heap, pc>>

GetMetadata ==
  /\ fn = "none"
  /\ Len(journal) > 0
  /\ \E key \in DocumentIds, tip1 \in 0..(Len(journal) - 1) :
       \E tip2 \in tip1..(Len(journal) - 1) :
          GotMetadata("getMetadata", <<key>>,
                      getDocumentLedgerMetadataWith(key, NoDigest, tip1, tip2),
                      getMetadata(getDocumentLedgerMetadataWith(key, NoDigest, tip1, tip2).result))

Verified(user, revisionResponse, asserted) ==
  \E flip \in FlipChoices :
    /\ fn' = "verifyLedgerMetadata"
    /\ args' = <<user, revisionResponse>>
    /\ inner' = verifyDocumentMetadataWithUserData(user, revisionResponse, asserted, flip[1], flip[2])
    /\ ret' = verifyLedgerMetadata(inner')
    /\ heap' = verifyMemory(user, inner'.calls, flip[1], flip[2])
    /\ UNCHANGED <<journal, digests, proofs, userMeta, table, tableState, pc>>

VerifyLedgerMetadata ==
  /\ fn = "none"
  /\ Len(userMeta) = 1
  /\ \E t \in Tamperings :
       \E revisionResponse \in
            GetRevisionResponses(getRevision(Tampered(userMeta[1], t).DocumentId,
                                             Tampered(userMeta[1], t).BlockAddress,
                                             Tampered(userMeta[1], t).LedgerDigest.DigestTipAddress)) :
          Verified(Tampered(userMeta[1], t), revisionResponse,
                   verifyAsserted(Tampered(userMeta[1], t), revisionResponse))

NextVerify ==
  \/ CommitRevision
  \/ GetMetadata
  \/ VerifyLedgerMetadata
  \/ CallReturn

SpecVerify == InitVerify /\ [][NextVerify]_vars

(***************************************************************************)
(* A ledger that already holds revisions, and a caller who repeats a       *)
(* verification with another Proof in the metadata.                        *)
(***************************************************************************)
\* The journal after revisions of the documents ids have been committed.
RECURSIVE JournalOf(_, _)
JournalOf(ids, blocks) ==
  IF Len(blocks) = Len(ids) THEN blocks
  ELSE JournalOf(ids,
         Append(blocks,
                [id |-> ids[Len(blocks) + 1],
                 version |-> Cardinality({k \in 1..Len(blocks) : blocks[k].id = ids[Len(blocks) + 1]}),
                 hash |-> LedgerRevisionHash(ids[Len(blocks) + 1],
                            Cardinality({k \in 1..Len(blocks) : blocks[k].id = ids[Len(blocks) + 1]}))]))

CommittedJournals == {<<"d1", "d2">>, <<"d1", "d1", "d2">>}

InitProof ==
  /\ fn = "none"
  /\ args = <<>>
  /\ ret = NoResult
  /\ inner = NoInner
  /\ \E ids \in CommittedJournals :
       /\ journal = JournalOf(ids, <<>>)
       /\ digests = [n \in 1..Len(ids) |-> MerkleRoot(LeafHashes(SubSeq(JournalOf(ids, <<>>), 1, n)))]
       /\ proofs = [n \in 1..Len(ids) |->
                      [k \in 1..n |-> MerklePath(k, LeafHashes(SubSeq(JournalOf(ids, <<>>), 1, n)))]]
  /\ userMeta = <<>>
  /\ table = <<>>
  /\ tableState = "EXIST"
  /\ heap = <<>>
  /\ pc = Idle

\* What a caller may put into the Proof field in place of what it holds.
OtherProofs(proof) ==
  {ProofHolder(<<>>), ProofHolder(<<TestHash(1, 1)>>),
   ProofHolder(<<TestHash(1, 1), TestHash(200, 200)>>)} \ {proof}

\* The call just made is made again with nothing changed but the Proof of
\* the metadata; the ledger is as it was and answers as it did.  args[3],
\* args[4] and args[5] keep the metadata, the outcome and the result of the
\* first call.
VerifiedAgain(user, revisionResponse, asserted) ==
  \E flip \in FlipChoices :
    /\ fn' = "verifyLedgerMetadataAgain"
    /\ args' = <<user, revisionResponse, args[1], inner, ret>>
    /\ inner' = verifyDocumentMetadataWithUserData(user, revisionResponse, asserted, flip[1], flip[2])
    /\ ret' = verifyLedgerMetadata(inner')
    /\ heap' = verifyMemory(user, inner'.calls, flip[1], flip[2])
    /\ UNCHANGED <<journal, digests, proofs, userMeta, table, tableState, pc>>

VerifyLedgerMetadataAgain ==
  /\ fn = "verifyLedgerMetadata"
  /\ \E proof \in OtherProofs(args[1].Proof) :
       VerifiedAgain([args[1] EXCEPT !.Proof = proof], args[2],
                     verifyAsserted([args[1] EXCEPT !.Proof = proof], args[2]))

\* The digest at a tip as a caller holds it.
LedgerDigestAt(tip) ==
  [Digest |-> toBase64(LedgerGetDigest(tip).Digest),
   DigestTipAddress |-> LedgerGetDigest(tip).DigestTipAddress]

\* getDocumentLedgerMetadata called with a digest that the caller holds.
GetMetadataWithDigest ==
  /\ fn = "none"
  /\ Len(journal) > 0
  /\ \E key \in DocumentIds, tip \in 0..(Len(journal) - 1) :
       \E tip1 \in 0..(Len(journal) - 1) :
          GotMetadata("getDocumentLedgerMetadata", <<key, LedgerDigestAt(tip)>>,
                      getDocumentLedgerMetadataWith(key, PassedDigest(LedgerDigestAt(tip)), tip1, tip1),
                      getDocumentLedgerMetadataWith(key, PassedDigest(LedgerDigestAt(tip)), tip1, tip1).result)

\* src/unnamed/part_011 (QLDBKVS.ts), getMetadataByDocIdAndTxId.
GetMetadataByDocIdAndTxId ==
  /\ fn = "none"
  /\ Len(journal) > 0
  /\ \E documentId \in DocumentIds, transactionId \in 0..Len(journal),
        tip1 \in 0..(Len(journal) - 1) :
       \E tip2 \in tip1..(Len(journal) - 1) :
          GotMetadata("getMetadataByDocIdAndTxId", <<documentId, transactionId>>,
                      getDocumentLedgerMetadataByDocIdAndTxId(documentId, transactionId, tip1, tip2),
                      getMetadata(getDocumentLedgerMetadataByDocIdAndTxId(documentId, transactionId,
                                                                          tip1, tip2).result))

NextProof ==
  \/ GetMetadata
  \/ GetMetadataWithDigest
  \/ GetMetadataByDocIdAndTxId
  \/ VerifyLedgerMetadata
  \/ VerifyLedgerMetadataAgain
  \/ CallReturn

SpecProof == InitProof /\ [][NextProof]_vars

(***************************************************************************)
(* The key-value store: QLDBKVS over one table of the ledger.  A           *)
(* JavaScript value is a record [type, text, fields], fields being the set *)
(* of the attributes <<name, value>> of an object; a document is such a    *)
(* set of attributes.  A row of the table is a committed document with its *)
(* id and version; a row's id is its position in the table.                *)
(***************************************************************************)
MAX_KEYS_TO_RETRIEVE == 32

\* "Unable to submit more than 10 values at a time"
MaxValuesAtATime == 10

\* Highest version a document reaches.
MaxVersion == 2

\* Most documents in the table.
MaxDocuments == 3

\* !value
falsy(value) ==
  \/ value.type = "undefined"
  \/ value.type = "string" /\ value.text = ""
  \/ value.type = "number" /\ value.text = "0"

\* The optional parameter version: a number, or undefined / null.
NoVersion == [kind |-> "undefined", num |-> 0]

VersionNumber(n) == [kind |-> "number", num |-> n]

\* The optional parameter versions: an array, or undefined.
NoVersions == [given |-> FALSE, list |-> <<>>]

Versions(list) == [given |-> TRUE, list |-> list]

\* The driver writes a JavaScript number as an Ion int; JSON.stringify of
\* the Ion value gives the number back.
toIon(value) ==
  [type |-> IF value.type = "number" THEN "int" ELSE value.type,
   text |-> value.text, fields |-> {}]

ionToJSON(ion) ==
  [type |-> IF ion.type = "int" THEN "number" ELSE ion.type,
   text |-> ion.text, fields |-> {}]

ionDocument(document) == {<<f[1], toIon(f[2])>> : f \in document}

hasAttribute(document, name) == \E f \in document : f[1] = name

attribute(document, name) == (CHOOSE f \in document : f[1] = name)[2]

keyOf(row) == attribute(row.data, KEY_ATTRIBUTE_NAME).text

\* SELECT ... FROM _ql_committed_<table> WHERE data._k = ? / IN [?, ...],
\* in the order of the table.
rowsWithKeys(rows, keyValues) ==
  LET Among(r) == keyOf(r) \in keyValues
  IN SelectSeq(rows, Among)

getDocumentIdsAndVersions(rows, keyAttributeValue) ==
  IF Len(rowsWithKeys(rows, {keyAttributeValue})) = 0
  THEN Thrown("Unable to retrieve document ID")
  ELSE Returned([i \in 1..Len(rowsWithKeys(rows, {keyAttributeValue})) |->
                  [id |-> rowsWithKeys(rows, {keyAttributeValue})[i].id,
                   version |-> rowsWithKeys(rows, {keyAttributeValue})[i].version]])

\* upsert, up to the statement it executes.  An error of the lookup is
\* caught and read as "no document yet".
docIdsAndVersionsFor(rows, document) ==
  IF getDocumentIdsAndVersions(rows, attribute(document, KEY_ATTRIBUTE_NAME).text).ok
  THEN getDocumentIdsAndVersions(rows, attribute(document, KEY_ATTRIBUTE_NAME).text).val
  ELSE <<>>

\* Number.isFinite(version) && (version !== documentVersion)
versionDiffers(version, documentVersion) ==
  version.kind = "number" /\ version.num # documentVersion

\* UpsertDocument.ts: version && (version !== documentVersion)
versionTruthyAndDiffers(version, documentVersion) ==
  /\ version.kind = "number" /\ version.num # 0
  /\ version.num # documentVersion

Update(id, document) == [statement |-> "UPDATE", id |-> id, document |-> ionDocument(document)]

Insert(document) == [statement |-> "INSERT", id |-> 0, document |-> ionDocument(document)]

upsert(rows, documentIon, version) ==
  IF ~hasAttribute(documentIon, KEY_ATTRIBUTE_NAME)
  THEN Thrown("Attribute with name _k does not exist in document passed")
  ELSE IF Len(docIdsAndVersionsFor(rows, documentIon)) > 1
  THEN Thrown("More than one document found")
  ELSE IF Len(docIdsAndVersionsFor(rows, documentIon)) = 1
  THEN (IF versionDiffers(version, docIdsAndVersionsFor(rows, documentIon)[1].version)
        THEN Thrown("Expected version number does not equal the latest version number in the ledger")
        ELSE Returned(Update(docIdsAndVersionsFor(rows, documentIon)[1].id, documentIon)))
  ELSE Returned(Insert(documentIon))

\* upsert of src/src/UpsertDocument.ts.
upsertDocumentJSON(rows, documentJSON, version) ==
  IF ~hasAttribute(documentJSON, KEY_ATTRIBUTE_NAME)
  THEN Thrown("Attribute with name _k does not exist in document passed")
  ELSE IF Len(docIdsAndVersionsFor(rows, documentJSON)) > 1
  THEN Thrown("More than one document found")
  ELSE IF Len(docIdsAndVersionsFor(rows, documentJSON)) = 1
  THEN (IF versionTruthyAndDiffers(version, docIdsAndVersionsFor(rows, documentJSON)[1].version)
        THEN Thrown("Expected version number does not equal the latest version number in the ledger")
        ELSE Returned(Update(docIdsAndVersionsFor(rows, documentJSON)[1].id, documentJSON)))
  ELSE Returned(Insert(documentJSON))

\* The statements of a transaction applied in order to its working copy of
\* the table; ids collects the documentId each statement returns.
RECURSIVE applyFrom(_, _, _, _, _)
applyFrom(working, committed, writes, ids, i) ==
  IF i > Len(writes) THEN [rows |-> working, ids |-> ids]
  ELSE IF Len(working) < 0 \/ Len(ids) < 0 THEN [rows |-> working, ids |-> ids]
  ELSE IF writes[i].statement = "UPDATE"
  THEN applyFrom([j \in 1..Len(working) |->
                    IF j = writes[i].id
                    THEN [id |-> j, data |-> writes[i].document,
                          version |-> committed[j].version + 1]
                    ELSE working[j]],
                 committed, writes, Append(ids, [documentId |-> writes[i].id]), i + 1)
  ELSE applyFrom(Append(working, [id |-> Len(working) + 1, data |-> writes[i].document,
                                  version |-> 0]),
                 committed, writes, Append(ids, [documentId |-> Len(working) + 1]), i + 1)

Call(name, key) == [call |-> name, key |-> key]

documentKey(document) ==
  IF hasAttribute(document, KEY_ATTRIBUTE_NAME)
  THEN attribute(document, KEY_ATTRIBUTE_NAME).text ELSE ""

\* The first upsert of the transaction that failed.
firstFailure(results) ==
  CHOOSE i \in 1..Len(results) : ~results[i].ok /\ \A j \in 1..(i - 1) : results[j].ok

\* The statements a transaction sent: every upsert's lookup, issued when
\* Promise.all starts the upserts, then the writes of the upserts that got
\* through, up to the first failure.
statementsSent(documents, results, n) ==
  [i \in 1..Len(documents) |-> Call("SELECT", documentKey(documents[i]))]
  \o [i \in 1..n |-> Call(results[i].val.statement, documentKey(documents[i]))]

\* executeLambda losing the rollback: what was written before the failing
\* upsert is committed.
executeLambda_NoRollback(rows, documents, results) ==
  IF \E i \in 1..Len(results) : ~results[i].ok
  THEN [result |-> results[firstFailure(results)],
        table |-> applyFrom(rows, rows,
                            [i \in 1..(firstFailure(results) - 1) |-> results[i].val],
                            <<>>, 1).rows,
        calls |-> <<Call("executeLambda", "")>>
                  \o statementsSent(documents, results, firstFailure(results) - 1)
                  \o <<Call("abort", "")>>]
  ELSE [result |-> Returned(applyFrom(rows, rows, [i \in 1..Len(results) |-> results[i].val],
                                      <<>>, 1).ids),
        table |-> applyFrom(rows, rows, [i \in 1..Len(results) |-> results[i].val],
                            <<>>, 1).rows,
        calls |-> <<Call("executeLambda", "")>>
                  \o statementsSent(documents, results, Len(results))
                  \o <<Call("commit", "")>>]

\* qldbDriver.executeLambda over the upserts of one call: the transaction
\* commits when every upsert returned and is aborted when one threw.
executeLambda(rows, documents, results) ==
  IF \E i \in 1..Len(results) : ~results[i].ok
  THEN [result |-> results[firstFailure(results)],
        table |-> rows,
        calls |-> <<Call("executeLambda", "")>>
                  \o statementsSent(documents, results, firstFailure(results) - 1)
                  \o <<Call("abort", "")>>]
  ELSE [result |-> Returned(applyFrom(rows, rows, [i \in 1..Len(results) |-> results[i].val],
                                      <<>>, 1).ids),
        table |-> applyFrom(rows, rows, [i \in 1..Len(results) |-> results[i].val],
                            <<>>, 1).rows,
        calls |-> <<Call("executeLambda", "")>>
                  \o statementsSent(documents, results, Len(results))
                  \o <<Call("commit", "")>>]

\* assureTableExists when tableState does not change while it polls: it
\* returns once it sees EXIST, gives up after its last poll while the table
\* is being checked or created, and falls out of its loop otherwise.
assureTableExists(state) ==
  IF state = "EXIST" THEN Returned(TRUE)
  ELSE IF state \in {"CREATING", "CHECKING"}
  THEN Thrown("Could not create a table")
  ELSE Returned(FALSE)

\* The checks on the arguments of setValues, without the limit on the keys.
argumentsError_NoUpperLimit(keys, values, versions) ==
  IF Len(keys) < 1 THEN "Please specify at least one key"
  ELSE IF Len(values) < 1 THEN "Please specify at least one value"
  ELSE IF Len(keys) # Len(values)
  THEN "Please make sure the number of keys equals the number of values"
  ELSE IF versions.given /\ Len(values) # Len(versions.list)
  THEN "Please make sure the number of versions equals the number of values"
  ELSE ""

\* The checks on the arguments of setValues; "" when they all pass.
argumentsError(keys, values, versions) ==
  IF Len(keys) < 1 THEN "Please specify at least one key"
  ELSE IF Len(keys) > MaxValuesAtATime THEN "Unable to submit more than 10 values at a time"
  ELSE IF Len(values) < 1 THEN "Please specify at least one value"
  ELSE IF Len(keys) # Len(values)
  THEN "Please make sure the number of keys equals the number of values"
  ELSE IF versions.given /\ Len(values) # Len(versions.list)
  THEN "Please make sure the number of versions equals the number of values"
  ELSE ""

\* keys.map(...): a string goes under _v next to the key; any other value is
\* copied attribute by attribute (Object.assign) and the key is set in it.
documentsArray(keys, values) ==
  [index \in 1..Len(keys) |->
     IF values[index].type = "string"
     THEN {<<KEY_ATTRIBUTE_NAME, Str(keys[index])>>, <<VALUE_ATTRIBUTE_NAME, values[index]>>}
     ELSE {f \in values[index].fields : f[1] # KEY_ATTRIBUTE_NAME}
          \cup {<<KEY_ATTRIBUTE_NAME, Str(keys[index])>>}]

versionAt(versions, index) == IF versions.given THEN versions.list[index] ELSE NoVersion

\* The result of a handler: what it returns or throws, what the layer below
\* returned or threw, the calls it made, and the table it leaves.
Handled(ret_, result, calls, rows) ==
  [ret |-> ret_, inner |-> [result |-> result, calls |-> calls], table |-> rows]

transacted(lambda, calls) ==
  Handled(IF lambda.result.ok THEN lambda.result ELSE Thrown("Could not set values"),
          lambda.result, calls \o lambda.calls, lambda.table)

\* The transaction of setValues: every key's upsert is started before any
\* of them is awaited, so each one selects from the table as the call found it.
setValuesLambda(rows, keys, values, versions) ==
  transacted(
    executeLambda(rows, documentsArray(keys, values),
                  [index \in 1..Len(keys) |->
                     upsert(rows, documentsArray(keys, values)[index],
                            versionAt(versions, index))]),
    <<Call("assureTableExists", "")>>)

setValues(rows, state, keys, values, versions) ==
  IF argumentsError(keys, values, versions) # ""
  THEN Handled(Thrown("Could not set values"),
               Thrown(argumentsError(keys, values, versions)), <<>>, rows)
  ELSE IF ~assureTableExists(state).ok
  THEN Handled(Thrown("Could not set values"), assureTableExists(state),
               <<Call("assureTableExists", "")>>, rows)
  ELSE setValuesLambda(rows, keys, values, versions)

\* The first result of the call below, or the caller's own error for its.
firstOf(handled, msg) ==
  IF handled.ret.ok THEN [handled EXCEPT !.ret = Returned(handled.ret.val[1])]
  ELSE [handled EXCEPT !.ret = Thrown(msg)]

setValue(rows, state, key, value, version) ==
  IF key = ""
  THEN Handled(Thrown("Could not set the value"), Thrown("Please specify a key"), <<>>, rows)
  ELSE IF falsy(value)
  THEN Handled(Thrown("Could not set the value"), Thrown("Please specify a value"), <<>>, rows)
  ELSE firstOf(setValues(rows, state, <<key>>, <<value>>, Versions(<<version>>)),
               "Could not set the value")

\* upsert of UpsertDocument.ts run in a transaction of its own, as
\* QLDBHelper.upsertDocumentWithKeyAttribute runs it, with its optional
\* parameter version.
executeUpsert(rows, documentJSON, version) ==
  firstOf(transacted(executeLambda(rows, <<documentJSON>>,
                                   <<upsertDocumentJSON(rows, documentJSON, version)>>),
                     <<>>),
          "[UpsertDocument.upsert]")

MAX_QLDB_DOCUMENT_SIZE == 131072

\* A file as uploadAsFile reads it: its content in base64 and the length of
\* that text.
File(base64, length) == [base64 |-> base64, length |-> length]

NoFile == File("", 0)

KeyLength == 2

\* uploadAsFile up to its await of assureTableExists: "" when it goes on, a
\* rejection, or the null it returns for a document that is too large.
uploadChecked(key, file) ==
  IF key = "" THEN Thrown("Please specify key")
  ELSE IF file = NoFile THEN Thrown("Please specify filePath")
  ELSE IF KeyLength + file.length > MAX_QLDB_DOCUMENT_SIZE THEN Returned(Null)
  ELSE NoResult

uploadDocument(key, file) == documentsArray(<<key>>, <<Str(file.base64)>>)[1]

\* The transaction of uploadAsFile: one upsert with no version.
uploadAsFileLambda(rows, key, file) ==
  firstOf(transacted(executeLambda(rows, <<uploadDocument(key, file)>>,
                                   <<upsert(rows, uploadDocument(key, file), NoVersion)>>),
                     <<Call("assureTableExists", "")>>),
          "Could not upload the file")

\* uploadAsFile from its call to its return or rejection.
uploadAsFile(rows, state, key, file) ==
  IF uploadChecked(key, file) # NoResult
  THEN Handled(IF uploadChecked(key, file).ok THEN uploadChecked(key, file)
               ELSE Thrown("Could not upload the file"),
               uploadChecked(key, file), <<>>, rows)
  ELSE IF ~assureTableExists(state).ok
  THEN Handled(Thrown("Could not upload the file"), assureTableExists(state),
               <<Call("assureTableExists", "")>>, rows)
  ELSE uploadAsFileLambda(rows, key, file)

Range(s) == {s[i] : i \in 1..Len(s)}

\* getByKeyAttributes failing unless every requested key is found.
getByKeyAttributes_AllRequired(rows, keyAttributeValues) ==
  IF Len(keyAttributeValues) > MAX_KEYS_TO_RETRIEVE
  THEN Thrown("Maximum number of keys (32) exceeded.")
  ELSE IF \E k \in Range(keyAttributeValues) : Len(rowsWithKeys(rows, {k})) = 0
  THEN Thrown("Unable to find documents with keys")
  ELSE Returned([i \in 1..Len(rowsWithKeys(rows, Range(keyAttributeValues))) |->
                  [data |-> rowsWithKeys(rows, Range(keyAttributeValues))[i].data,
                   version |-> rowsWithKeys(rows, Range(keyAttributeValues))[i].version]])

getByKeyAttributes(rows, keyAttributeValues) ==
  IF Len(keyAttributeValues) > MAX_KEYS_TO_RETRIEVE
  THEN Thrown("Maximum number of keys (32) exceeded.")
  ELSE IF Len(rowsWithKeys(rows, Range(keyAttributeValues))) = 0
  THEN Thrown("Unable to find documents with keys")
  ELSE Returned([i \in 1..Len(rowsWithKeys(rows, Range(keyAttributeValues))) |->
                  [data |-> rowsWithKeys(rows, Range(keyAttributeValues))[i].data,
                   version |-> rowsWithKeys(rows, Range(keyAttributeValues))[i].version]])

\* The value getValues hands out for a document: the text under _v when the
\* document has that attribute (stringValue() throws for what is no string),
\* else the document as a JSON object without its key.
returnValue(resultData) ==
  IF hasAttribute(resultData, VALUE_ATTRIBUTE_NAME)
  THEN (IF attribute(resultData, VALUE_ATTRIBUTE_NAME).type = "string"
        THEN Returned(Str(attribute(resultData, VALUE_ATTRIBUTE_NAME).text))
        ELSE Thrown("stringValue() is not supported"))
  ELSE Returned(Obj({<<f[1], ionToJSON(f[2])>> :
                      f \in {g \in resultData : g[1] # KEY_ATTRIBUTE_NAME}}))

returnObject(result, withVersionNumbers) ==
  IF withVersionNumbers
  THEN [key |-> attribute(result.data, KEY_ATTRIBUTE_NAME).text,
        data |-> returnValue(result.data).val, version |-> result.version]
  ELSE [key |-> attribute(result.data, KEY_ATTRIBUTE_NAME).text,
        data |-> returnValue(result.data).val]

returnObjects(result, withVersionNumbers) ==
  IF \E index \in 1..Len(result) : ~returnValue(result[index].data).ok
  THEN Thrown("Unable to convert")
  ELSE Returned([index \in 1..Len(result) |-> returnObject(result[index], withVersionNumbers)])

getValues(rows, keys, withVersionNumbers) ==
  IF ~getByKeyAttributes(rows, keys).ok
  THEN Handled(Thrown("Requested documents do not exist"), getByKeyAttributes(rows, keys),
               <<Call("executeLambda", "")>>, rows)
  ELSE IF ~returnObjects(getByKeyAttributes(rows, keys).val, withVersionNumbers).ok
  THEN Handled(Thrown("Requested documents do not exist"),
               returnObjects(getByKeyAttributes(rows, keys).val, withVersionNumbers),
               <<Call("executeLambda", "")>>, rows)
  ELSE Handled(returnObjects(getByKeyAttributes(rows, keys).val, withVersionNumbers),
               getByKeyAttributes(rows, keys), <<Call("executeLambda", "")>>, rows)

getValue(rows, key, withVersionNumber) ==
  IF key = ""
  THEN Handled(Thrown("Requested document does not exist"), Thrown("Please specify a key"),
               <<>>, rows)
  ELSE IF ~getValues(rows, <<key>>, withVersionNumber).ret.ok
  THEN [getValues(rows, <<key>>, withVersionNumber)
          EXCEPT !.ret = Thrown("Requested document does not exist")]
  ELSE [getValues(rows, <<key>>, withVersionNumber)
          EXCEPT !.ret = Returned(getValues(rows, <<key>>, withVersionNumber).ret.val[1])]

(***************************************************************************)
(* The store's methods called one at a time on a table that starts empty,  *)
(* while the constructor's background check of the table goes on.          *)
(***************************************************************************)
KVSKeys == {"k1", "k2"}

StringValue == Str("MyValue1")

ObjectValue == Obj({<<"test", Str("test2")>>, <<"number", Num("2")>>})

\* A JSON object with an attribute of the name the store keeps strings under.
ValueAttributeObject == Obj({<<VALUE_ATTRIBUTE_NAME, Str("test2")>>, <<"number", Num("2")>>})

SetValueInputs == {StringValue, ObjectValue, ValueAttributeObject, Str("")}

VersionInputs == {NoVersion} \cup {VersionNumber(n) : n \in 0..MaxVersion}

Repeated(n, e) == [i \in 1..n |-> e]

KeysInputs ==
  { <<>>, <<"k1">>, <<"k1", "k2">>, <<"k1", "k1">>,
    Repeated(MaxValuesAtATime, "k1"), Repeated(MaxValuesAtATime + 1, "k1") }

ValuesInputs ==
  { <<>>, <<ObjectValue>>, <<ObjectValue, StringValue>>,
    Repeated(MaxValuesAtATime, StringValue), Repeated(MaxValuesAtATime + 1, StringValue) }

VersionsInputs ==
  {NoVersions, Versions(<<>>), Versions(Repeated(MaxValuesAtATime, NoVersion))}
  \cup {Versions(<<v>>) : v \in {VersionNumber(0), VersionNumber(1)}}
  \cup {Versions(<<v1, v2>>) : v1 \in {VersionNumber(0), VersionNumber(1)},
                               v2 \in {VersionNumber(0), VersionNumber(1), NoVersion}}

GetKeysInputs ==
  { <<>>, <<"k1">>, <<"k1", "k2">>, <<"k2", "noKey">>, <<"noKey">>, <<"k1", "k1">>,
    Repeated(MAX_KEYS_TO_RETRIEVE + 1, "k1") }

FileInputs == {NoFile, File("MyValue1", 8), File("MyValue1", MAX_QLDB_DOCUMENT_SIZE)}

InitKVS ==
  /\ fn = "none"
  /\ args = <<>>
  /\ ret = NoResult
  /\ inner = NoInner
  /\ journal = <<>>
  /\ digests = <<>>
  /\ proofs = <<>>
  /\ userMeta = <<>>
  /\ table = <<>>
  /\ tableState \in {"CHECKING", "EXIST"}
  /\ heap = <<>>
  /\ pc = Idle

\* The constructor's listTables answers: the table is there, or it is not
\* and its creation starts.
TableListed ==
  /\ tableState = "CHECKING"
  /\ tableState' \in {"EXIST", "CREATING"}
  /\ UNCHANGED <<fn, args, ret, inner, journal, digests, proofs, userMeta, table, heap, pc>>

\* createTableWithIndex has returned.
TableCreated ==
  /\ tableState = "CREATING"
  /\ tableState' = "EXIST"
  /\ UNCHANGED <<fn, args, ret, inner, journal, digests, proofs, userMeta, table, heap, pc>>

\* A method runs from its call to its return or rejection.
Handle(name, arguments, handled) ==
  /\ fn = "none"
  /\ Len(handled.table) <= MaxDocuments
  /\ \A i \in 1..Len(handled.table) : handled.table[i].version <= MaxVersion
  /\ fn' = name
  /\ args' = arguments
  /\ ret' = handled.ret
  /\ inner' = handled.inner
  /\ table' = handled.table
  /\ UNCHANGED <<journal, digests, proofs, userMeta, tableState, heap, pc>>

SetValue ==
  \E key \in KVSKeys \cup {""}, value \in SetValueInputs, version \in VersionInputs :
    Handle("setValue", <<key, value, version>>,
           setValue(table, tableState, key, value, version))

SetValues ==
  \E keys \in KeysInputs, values \in ValuesInputs, versions \in VersionsInputs :
    Handle("setValues", <<keys, values, versions>>,
           setValues(table, tableState, keys, values, versions))

GetValue ==
  \E key \in KVSKeys \cup {"noKey", ""}, withVersionNumber \in BOOLEAN :
    Handle("getValue", <<key, withVersionNumber>>, getValue(table, key, withVersionNumber))

GetValues ==
  \E keys \in GetKeysInputs, withVersionNumbers \in BOOLEAN :
    Handle("getValues", <<keys, withVersionNumbers>>,
           getValues(table, keys, withVersionNumbers))

Upsert ==
  \E key \in KVSKeys, version \in VersionInputs :
    Handle("upsert",
           <<documentsArray(<<key>>, <<StringValue>>)[1], version>>,
           executeUpsert(table, documentsArray(<<key>>, <<StringValue>>)[1], version))

UploadAsFile ==
  \E key \in {"", "k1"}, file \in FileInputs :
    Handle("uploadAsFile", <<key, file>>, uploadAsFile(table, tableState, key, file))

NextKVS ==
  \/ TableListed
  \/ TableCreated
  \/ SetValue
  \/ SetValues
  \/ UploadAsFile
  \/ GetValue
  \/ GetValues
  \/ Upsert
  \/ CallReturn

SpecKVS == InitKVS /\ [][NextKVS]_vars

(***************************************************************************)
(* The calls that write, step by step: the constructor's table check runs  *)
(* in the background while setValues or uploadAsFile polls tableState in   *)
(* assureTableExists, and the transaction starts when the polling returns. *)
(***************************************************************************)
TABLE_CREATION_MAX_WAIT == 30000

\* One pass of the loop of assureTableExists after its sleep(100), entered
\* with cycles passes left: where the call goes next and with what.
poll_WaitsOnlyWhileCreating(state, cycles) ==
  IF state = "EXIST"
  THEN [at |-> "upsert", cycles |-> cycles - 1, result |-> Returned(TRUE)]
  ELSE IF cycles - 1 = 0
  THEN [at |-> "none", cycles |-> 0, result |-> Thrown("Could not create a table")]
  ELSE IF state = "CREATING"
  THEN [at |-> "sleep", cycles |-> cycles - 1, result |-> NoResult]
  ELSE [at |-> "upsert", cycles |-> cycles - 1, result |-> Returned(FALSE)]

poll_NeverGivesUp(state, cycles) ==
  IF state = "EXIST"
  THEN [at |-> "upsert", cycles |-> cycles - 1, result |-> Returned(TRUE)]
  ELSE IF state \in {"CREATING", "CHECKING"}
  THEN [at |-> "sleep", cycles |-> IF cycles > 1 THEN cycles - 1 ELSE cycles,
        result |-> NoResult]
  ELSE [at |-> "upsert", cycles |-> cycles - 1, result |-> Returned(FALSE)]

poll(state, cycles) ==
  IF state = "EXIST"
  THEN [at |-> "upsert", cycles |-> cycles - 1, result |-> Returned(TRUE)]
  ELSE IF cycles - 1 = 0
  THEN [at |-> "none", cycles |-> 0, result |-> Thrown("Could not create a table")]
  ELSE IF state \in {"CREATING", "CHECKING"}
  THEN [at |-> "sleep", cycles |-> cycles - 1, result |-> NoResult]
  ELSE [at |-> "upsert", cycles |-> cycles - 1, result |-> Returned(FALSE)]

\* The message of the error a method rejects with.
rejection(name) ==
  IF name = "uploadAsFile" THEN "Could not upload the file" ELSE "Could not set values"

\* The transaction of the call in flight.
lambdaOf(name, arguments, rows) ==
  IF name = "uploadAsFile"
  THEN uploadAsFileLambda(rows, arguments[1], arguments[2])
  ELSE setValuesLambda(rows, arguments[1], arguments[2], arguments[3])

Polling(calls, polls) == [result |-> NoResult, calls |-> calls, polls |-> polls]

TableKeys == <<"k1">>

InitTable ==
  /\ fn = "none"
  /\ args = <<>>
  /\ ret = NoResult
  /\ inner = NoInner
  /\ journal = <<>>
  /\ digests = <<>>
  /\ proofs = <<>>
  /\ userMeta = <<>>
  /\ table = <<>>
  /\ tableState \in {"CHECKING", "EXIST"}
  /\ heap = <<>>
  /\ pc = Idle

\* A call that ends before it awaits assureTableExists.
Ended(name, arguments, result, error) ==
  /\ fn' = name
  /\ args' = arguments
  /\ ret' = result
  /\ inner' = [result |-> error, calls |-> <<>>]
  /\ UNCHANGED <<journal, digests, proofs, userMeta, table, tableState, heap, pc>>

\* A call that reaches its await of assureTableExists, which starts to sleep.
Awaited(name, arguments) ==
  /\ Len(lambdaOf(name, arguments, table).table) <= MaxDocuments
  /\ \A i \in 1..Len(lambdaOf(name, arguments, table).table) :
       lambdaOf(name, arguments, table).table[i].version <= MaxVersion
  /\ fn' = name
  /\ args' = arguments
  /\ ret' = NoResult
  /\ inner' = Polling(<<Call("assureTableExists", "")>>, 0)
  /\ pc' = [at |-> "sleep", cycles |-> TABLE_CREATION_MAX_WAIT \div 100]
  /\ UNCHANGED <<journal, digests, proofs, userMeta, table, tableState, heap>>

StartSetValues ==
  /\ fn = "none"
  /\ pc = Idle
  /\ \E keys \in {<<>>, TableKeys}, versions \in {NoVersions, Versions(<<VersionNumber(1)>>)} :
       IF argumentsError(keys, <<StringValue>>, versions) # ""
       THEN Ended("setValues", <<keys, <<StringValue>>, versions>>,
                  Thrown("Could not set values"),
                  Thrown(argumentsError(keys, <<StringValue>>, versions)))
       ELSE Awaited("setValues", <<keys, <<StringValue>>, versions>>)

StartUploadAsFile ==
  /\ fn = "none"
  /\ pc = Idle
  /\ \E key \in {"", "k2"}, file \in FileInputs :
       IF uploadChecked(key, file) = NoResult
       THEN Awaited("uploadAsFile", <<key, file>>)
       ELSE Ended("uploadAsFile", <<key, file>>,
                  IF uploadChecked(key, file).ok THEN uploadChecked(key, file)
                  ELSE Thrown("Could not upload the file"),
                  uploadChecked(key, file))

\* The timer of sleep(100) fires and the loop of assureTableExists looks at
\* tableState: it returns, throws, which rejects the call, or sleeps again.
Poll ==
  /\ pc.at = "sleep"
  /\ pc' = [at |-> poll(tableState, pc.cycles).at,
            cycles |-> IF poll(tableState, pc.cycles).at = "sleep"
                       THEN poll(tableState, pc.cycles).cycles ELSE 0]
  /\ inner' = [inner EXCEPT !.polls = @ + 1,
                            !.result = IF poll(tableState, pc.cycles).at = "none"
                                       THEN poll(tableState, pc.cycles).result ELSE @]
  /\ ret' = IF poll(tableState, pc.cycles).at = "none" THEN Thrown(rejection(fn)) ELSE ret
  /\ UNCHANGED <<fn, args, journal, digests, proofs, userMeta, table, tableState, heap>>

\* executeLambda runs the transaction of the call and the call returns.
Transact ==
  /\ pc.at = "upsert"
  /\ pc' = Idle
  /\ ret' = lambdaOf(fn, args, table).ret
  /\ inner' = [result |-> lambdaOf(fn, args, table).inner.result,
               calls |-> lambdaOf(fn, args, table).inner.calls,
               polls |-> inner.polls]
  /\ table' = lambdaOf(fn, args, table).table
  /\ UNCHANGED <<fn, args, journal, digests, proofs, userMeta, tableState, heap>>

NextTable ==
  \/ TableListed
  \/ TableCreated
  \/ StartSetValues
  \/ StartUploadAsFile
  \/ Poll
  \/ Transact
  \/ CallReturn

SpecTable == InitTable /\ [][NextTable]_vars

\* Timers fire and the driver answers; nothing makes the constructor's
\* listTables or createTableWithIndex answer.
SpecTableFair == SpecTable /\ WF_vars(Poll) /\ WF_vars(Transact)

(***************************************************************************)
(* The driver registry of QLDBHelper.ts: the module keeps one Map from     *)
(* ledger names to drivers, and the constructor of QLDBHelper looks the    *)
(* name up before it creates a driver.  The memory of the process is a     *)
(* sequence of objects; an address is an index into it.                    *)
(***************************************************************************)
MaxHelpers == 4

MapObject(entries) ==
  [kind |-> "Map", ledgerName |-> "", qldbDriver |-> 0, closed |-> FALSE, entries |-> entries]

QldbDriver(ledgerName) ==
  [kind |-> "QldbDriver", ledgerName |-> ledgerName, qldbDriver |-> 0, closed |-> FALSE,
   entries |-> {}]

QLDBHelper(ledgerName, qldbDriver) ==
  [kind |-> "QLDBHelper", ledgerName |-> ledgerName, qldbDriver |-> qldbDriver,
   closed |-> FALSE, entries |-> {}]

\* The Map that the module creates when it is loaded.
ledgersConnected == 1

has(memory, ledgerName) == \E entry \in memory[ledgersConnected].entries : entry[1] = ledgerName

get(memory, ledgerName) ==
  (CHOOSE entry \in memory[ledgersConnected].entries : entry[1] = ledgerName)[2]

set(memory, ledgerName, address) ==
  [memory EXCEPT ![ledgersConnected].entries =
     {entry \in @ : entry[1] # ledgerName} \cup {<<ledgerName, address>>}]

\* createQldbDriver: a new driver object and its address.
createQldbDriver(memory, ledgerName) == Append(memory, QldbDriver(ledgerName))

LedgerNames == {"vehicle-registration", "other-ledger", "", "2021"}

\* validateLedgerNameConstrains of Util.ts on the names above: the empty
\* name fails the pattern and the name of digits the test for a non-digit.
validateLedgerNameConstrains(ledgerName) ==
  IF ledgerName = ""
  THEN Thrown("Please check ledgerName complies with Amazon QLDB table naming constrains")
  ELSE IF ledgerName = "2021"
  THEN Thrown("Please check ledgerName - can not be all digits")
  ELSE Returned(TRUE)

\* new QLDBHelper(ledgerName): the memory after it, and the address of the
\* instance or the error.
constructor_NoLookup(memory, ledgerName) ==
  IF ~validateLedgerNameConstrains(ledgerName).ok
  THEN [memory |-> memory, ret |-> Thrown("[QLDBHelper.constructor]")]
  ELSE [memory |-> Append(set(createQldbDriver(memory, ledgerName), ledgerName, Len(memory) + 1),
                          QLDBHelper(ledgerName, Len(memory) + 1)),
        ret |-> Returned(Len(memory) + 2)]

constructor(memory, ledgerName) ==
  IF ~validateLedgerNameConstrains(ledgerName).ok
  THEN [memory |-> memory, ret |-> Thrown("[QLDBHelper.constructor]")]
  ELSE IF ~has(memory, ledgerName)
  THEN [memory |-> Append(set(createQldbDriver(memory, ledgerName), ledgerName, Len(memory) + 1),
                          QLDBHelper(ledgerName, Len(memory) + 1)),
        ret |-> Returned(Len(memory) + 2)]
  ELSE [memory |-> Append(memory, QLDBHelper(ledgerName, get(memory, ledgerName))),
        ret |-> Returned(Len(memory) + 1)]

\* this.qldbDriver.close(); the entry of the Map stays.
closeSession(memory, helper) == [memory EXCEPT ![memory[helper].qldbDriver].closed = TRUE]

Helpers(memory) == {a \in 1..Len(memory) : memory[a].kind = "QLDBHelper"}

Drivers(memory) == {a \in 1..Len(memory) : memory[a].kind = "QldbDriver"}

InitRegistry ==
  /\ fn = "none"
  /\ args = <<>>
  /\ ret = NoResult
  /\ inner = NoInner
  /\ journal = <<>>
  /\ digests = <<>>
  /\ proofs = <<>>
  /\ userMeta = <<>>
  /\ table = <<>>
  /\ tableState = "EXIST"
  /\ heap = <<MapObject({})>>
  /\ pc = Idle

NewQLDBHelper ==
  /\ Cardinality(Helpers(heap)) < MaxHelpers
  /\ \E ledgerName \in LedgerNames :
       /\ fn' = "QLDBHelper"
       /\ args' = <<ledgerName>>
       /\ ret' = constructor(heap, ledgerName).ret
       /\ heap' = constructor(heap, ledgerName).memory
  /\ UNCHANGED <<inner, journal, digests, proofs, userMeta, table, tableState, pc>>

CloseSession ==
  /\ \E helper \in Helpers(heap) :
       /\ fn' = "closeSession"
       /\ args' = <<helper>>
       /\ ret' = Returned(TRUE)
       /\ heap' = closeSession(heap, helper)
  /\ UNCHANGED <<inner, journal, digests, proofs, userMeta, table, tableState, pc>>

NextRegistry ==
  \/ NewQLDBHelper
  \/ CloseSession

SpecRegistry == InitRegistry /\ [][NextRegistry]_vars

(***************************************************************************)
(* Properties of the hash functions.                                       *)
(***************************************************************************)
JoinOfTwoHashes == fn = "joinHashesPairwise" /\ Is32(args[1]) /\ Is32(args[2])

\* C1: for 32-byte h1 and h2 (h1 = h2 included), joinHashesPairwise(h1, h2)
\* returns the same value as joinHashesPairwise(h2, h1).
C1_JoinCommutative ==
  JoinOfTwoHashes => ret.ok /\ ret = joinHashesPairwise(args[2], args[1])

C1_Witness ==
  JoinOfTwoHashes /\ args[1] # args[2] /\ ret.ok /\ Is32(ret.val)

\* combine(...combine(combine(leaf, p1), p2)..., pn), written from the outside
\* in: the last proof element is combined with the nesting of the ones before.
RECURSIVE NestedCombine(_, _)
NestedCombine(leaf, proof) ==
  IF Len(proof) = 0 THEN Returned(leaf)
  ELSE IF ~NestedCombine(leaf, SubSeq(proof, 1, Len(proof) - 1)).ok
       THEN NestedCombine(leaf, SubSeq(proof, 1, Len(proof) - 1))
       ELSE joinHashesPairwise(NestedCombine(leaf, SubSeq(proof, 1, Len(proof) - 1)).val,
                               proof[Len(proof)])

\* C2: the candidate digest is the left fold of joinHashesPairwise over the
\* proof in the order given, starting from the leaf; for an empty proof it is
\* the leaf itself.
C2_CandidateIsLeftFold ==
  fn = "buildCandidateDigest" =>
    /\ ret = NestedCombine(args[2], parseProof(args[1]))
    /\ Len(args[1].IonText) = 0 => ret = Returned(args[2])

C2_Witness ==
  /\ fn = "buildCandidateDigest"
  /\ Len(args[1].IonText) = 2
  /\ Is32(fromBase64(args[1].IonText[1]))
  /\ Is32(fromBase64(args[1].IonText[2]))
  /\ args[1].IonText[1] # args[1].IonText[2]
  /\ ret.ok /\ Is32(ret.val)

\* C3: for two 32-byte operands joinHashesPairwise returns SHA-256 of the
\* 64-byte concatenation with the operand compareHashValues ranks smaller
\* first; the result is exactly 32 bytes.
C3_JoinIsSortedSha256 ==
  JoinOfTwoHashes =>
    /\ ret.ok
    /\ Len(ret.val) = 32
    /\ compareHashValues(args[1], args[2]).val < 0 =>
         /\ Len(args[1] \o args[2]) = 64
         /\ ret.val = sha256(args[1] \o args[2])
    /\ compareHashValues(args[1], args[2]).val > 0 =>
         /\ Len(args[2] \o args[1]) = 64
         /\ ret.val = sha256(args[2] \o args[1])
    /\ compareHashValues(args[1], args[2]).val = 0 =>
         /\ args[1] = args[2]
         /\ ret.val = sha256(args[1] \o args[1])

C3_Witness ==
  /\ JoinOfTwoHashes
  /\ compareHashValues(args[1], args[2]).val > 0
  /\ ret.ok /\ ret.val = sha256(args[2] \o args[1])

\* The JavaScript indexes (0..31) at which two 32-byte values differ.
DifferingIndexes(a, b) == {i \in 0..31 : a[i + 1] # b[i + 1]}

AsSigned8(x) == ((x + 128) % 256) - 128

\* C4: compareHashValues(a, b) on 32-byte values is 0 if no byte differs, and
\* otherwise a[i] - b[i], bytes read as signed 8-bit integers, at the highest
\* index i where they differ (the first one met scanning from 31 down to 0).
C4_CompareScansFromLastByte ==
  (fn = "compareHashValues" /\ Is32(args[1]) /\ Is32(args[2])) =>
    /\ ret.ok
    /\ DifferingIndexes(args[1], args[2]) = {} => ret.val = 0
    /\ \A i \in DifferingIndexes(args[1], args[2]) :
         (\A j \in DifferingIndexes(args[1], args[2]) : j <= i) =>
           ret.val = AsSigned8(args[1][i + 1]) - AsSigned8(args[2][i + 1])

C4_Witness ==
  /\ fn = "compareHashValues" /\ Is32(args[1]) /\ Is32(args[2])
  /\ DifferingIndexes(args[1], args[2]) = {0, 31}
  /\ args[1][32] >= 128 /\ args[2][32] < 128
  /\ ret.ok /\ ret.val < 0

\* C5: the zero-length value is an identity for joinHashesPairwise: with a
\* 32-byte h, joinHashesPairwise(empty, h) and joinHashesPairwise(h, empty)
\* both return h itself, not a hash of it.
C5_EmptyIsIdentity ==
  fn = "joinHashesPairwise" =>
    /\ (Len(args[1]) = 0 /\ Is32(args[2])) => ret = Returned(args[2])
    /\ (Len(args[2]) = 0 /\ Is32(args[1])) => ret = Returned(args[1])

C5_Witness ==
  /\ fn = "joinHashesPairwise"
  /\ Len(args[2]) = 0 /\ Is32(args[1])
  /\ ret = Returned(args[1])

(***************************************************************************)
(* Properties of verification.  In a state where verifyLedgerMetadata has  *)
(* been called, args[1] is the metadata asserted by the caller and args[2] *)
(* the answer of the remote getRevision.                                   *)
(***************************************************************************)
VerifyCall == fn = "verifyLedgerMetadata"

FetchedOk == VerifyCall /\ args[2].ok

HashesMatch == args[1].RevisionHash = toBase64(args[2].val.Revision.hash)

IdsMatch == args[1].DocumentId = args[2].val.Revision.metadata.id

AddressTextsMatch ==
  valueHolderToString(args[1].BlockAddress)
    = valueHolderToString(blockAddressToValueHolder(args[2].val.Revision))

AddressFieldsMatch ==
  /\ IonField(args[1].BlockAddress, "strandId") = args[2].val.Revision.blockAddress.strandId
  /\ IonField(args[1].BlockAddress, "sequenceNo") = args[2].val.Revision.blockAddress.sequenceNo

\* The digest recomputed from the asserted hash and the fetched proof is not
\* the asserted digest.
CandidateDiffers ==
  /\ buildCandidateDigest(args[2].val.Proof, fromBase64(args[1].RevisionHash)).ok
  /\ toBase64(buildCandidateDigest(args[2].val.Proof, fromBase64(args[1].RevisionHash)).val)
       # args[1].LedgerDigest.Digest

NoDigestComputed == \A k \in 1..Len(inner.calls) : inner.calls[k] # "verifyDocumentMetadata"

\* The answer is the ledger's own for the request made.
LedgerAnswered ==
  args[2] = LedgerGetRevision(args[1].DocumentId, args[1].BlockAddress,
                              args[1].LedgerDigest.DigestTipAddress)

\* C6: when the fetched hash, document id and block address match the caller's
\* metadata but the recomputed digest differs from the asserted one, verify
\* completes with the boolean false and raises no error.
C6_DigestMismatchReturnsFalse ==
  (FetchedOk /\ HashesMatch /\ IdsMatch /\ AddressTextsMatch /\ CandidateDiffers) =>
    /\ inner.result = Returned(FALSE)
    /\ ret = Returned(FALSE)

\* C7: metadata produced by getMetadata, handed unmodified to
\* verifyLedgerMetadata and checked against the ledger's answer, verifies true,
\* also after later revisions have been committed.
C7_MetadataVerifies ==
  (VerifyCall /\ args[1] = userMeta[1] /\ LedgerAnswered) => ret = Returned(TRUE)

C7_Witness ==
  /\ VerifyCall /\ args[1] = userMeta[1] /\ LedgerAnswered
  /\ ret = Returned(TRUE)
  /\ Len(parseProof(args[2].val.Proof)) > 0
  /\ \E k \in 1..Len(journal) :
       /\ k - 1 > IonField(args[1].LedgerDigest.DigestTipAddress, "sequenceNo")
       /\ journal[k].id = args[1].DocumentId

\* C8 as stated: whenever the fetched revision's document id differs from the
\* asserted one, the error is the document id mismatch and no candidate digest
\* is computed.
C8_IdMismatchError ==
  (FetchedOk /\ ~IdsMatch) =>
    /\ inner.result = Thrown("Revision IDs do not match")
    /\ ~ret.ok
    /\ NoDigestComputed

\* C8, amended: whenever the fetched revision's document id differs from the
\* asserted one, verify fails and no candidate digest is computed; the error is
\* the document id mismatch when the revision hashes match, and the revision
\* hash mismatch when they do not.
C8_IdMismatchAfterHashMatch ==
  (FetchedOk /\ ~IdsMatch) =>
    /\ ~ret.ok
    /\ NoDigestComputed
    /\ HashesMatch => inner.result = Thrown("Revision IDs do not match")
    /\ ~HashesMatch => inner.result = Thrown("Revision hashes do not match")

C8_Witness ==
  /\ FetchedOk /\ HashesMatch /\ ~IdsMatch
  /\ inner.result = Thrown("Revision IDs do not match")
  /\ inner.calls = <<"getRevision">>

\* The number of bits in which two byte arrays of equal length differ.
BitDistance(x, y) ==
  Cardinality({p \in (1..Len(x)) \X (0..7) : Bit(x[p[1]], p[2]) # Bit(y[p[1]], p[2])})

\* The asserted metadata is the caller's, with one bit of RevisionHash flipped.
RevisionHashBitFlipped ==
  /\ args[1] = [userMeta[1] EXCEPT !.RevisionHash = args[1].RevisionHash]
  /\ Len(fromBase64(args[1].RevisionHash)) = Len(fromBase64(userMeta[1].RevisionHash))
  /\ BitDistance(fromBase64(args[1].RevisionHash), fromBase64(userMeta[1].RevisionHash)) = 1

\* C9: if the fetched revision's hash differs from the asserted RevisionHash,
\* verify fails with the revision hash mismatch and returns no boolean; metadata
\* whose RevisionHash has one bit flipped is rejected.
C9_HashMismatchRejected ==
  /\ (FetchedOk /\ ~HashesMatch) =>
       /\ inner.result = Thrown("Revision hashes do not match")
       /\ ~ret.ok
  /\ (VerifyCall /\ RevisionHashBitFlipped) => ~ret.ok

C9_Witness ==
  /\ FetchedOk /\ LedgerAnswered /\ RevisionHashBitFlipped
  /\ ~HashesMatch
  /\ inner.result = Thrown("Revision hashes do not match")
  /\ ~ret.ok

\* C10: with the revision hashes and document ids matching, verify fails with
\* the block address mismatch exactly when the asserted and the fetched block
\* address differ in strandId or in sequenceNo.
C10_AddressEqualityIsFieldwise ==
  (FetchedOk /\ HashesMatch /\ IdsMatch) =>
    (inner.result = Thrown("BlockAddresses do not match") <=> ~AddressFieldsMatch)

\* C12: a call of compareHashValues or joinHashesPairwise with an operand whose
\* length is neither 32 nor zero fails with the invalid-hash error, whatever
\* the other operand is, the zero-length value included.
C12_InvalidLengthAlwaysFails ==
  (/\ fn \in {"compareHashValues", "joinHashesPairwise"}
   /\ \E i \in 1..2 : Len(args[i]) \notin {0, HASH_LENGTH})
  => (~ret.ok /\ ret.msg = "Invalid hash.")

OrderSign(n) == IF n < 0 THEN -1 ELSE IF n > 0 THEN 1 ELSE 0

\* C13: on 32-byte hashes compareHashValues is a total order: a hash compares
\* equal to itself, the result is zero only for equal operands, swapping the
\* operands swaps the sign, and "less than" is transitive.
C13_CompareIsTotalOrder ==
  (fn = "compareHashValues" /\ Is32(args[1]) /\ Is32(args[2])) =>
    /\ ret.ok
    /\ (args[1] = args[2]) <=> (ret.val = 0)
    /\ compareHashValues(args[2], args[1]).ok
    /\ OrderSign(compareHashValues(args[2], args[1]).val) = -OrderSign(ret.val)
    /\ \A c \in CompareInputs \cup HashInputs :
         (ret.val < 0 /\ compareHashValues(args[2], c).val < 0)
         => compareHashValues(args[1], c).val < 0

\* Two hashes whose last bytes are the smallest and the largest signed byte,
\* with a third hash above both.
C13_Witness ==
  /\ fn = "compareHashValues"
  /\ Is32(args[1]) /\ Is32(args[2])
  /\ args[1][HASH_LENGTH] = 128 /\ args[2][HASH_LENGTH] = 127
  /\ ret.ok /\ ret.val = -255
  /\ \E c \in CompareInputs : compareHashValues(args[2], c).val < 0

\* C14: for a non-empty array flipRandomBit returns an array of the length the
\* input had before the call that differs from that input in exactly one bit:
\* one byte is XORed with 1 << k, k in 0..7, and every other byte is unchanged.
C14_FlipChangesExactlyOneBit ==
  (fn = "flipRandomBit" /\ Len(args[1]) > 0) =>
    /\ ret.ok
    /\ Len(ret.val) = Len(args[1])
    /\ BitDistance(args[1], ret.val) = 1
    /\ \E i \in 1..Len(args[1]), k \in 0..7 :
         /\ ret.val[i] \in 0..255
         /\ \/ ret.val[i] - args[1][i] = 2 ^ k /\ Bit(args[1][i], k) = 0
            \/ args[1][i] - ret.val[i] = 2 ^ k /\ Bit(args[1][i], k) = 1
         /\ \A j \in 1..Len(args[1]) : j # i => ret.val[j] = args[1][j]

\* The top bit of the last byte of a hash, set before the call, is cleared.
C14_Witness ==
  /\ fn = "flipRandomBit"
  /\ Is32(args[1])
  /\ args[2] = HASH_LENGTH - 1 /\ args[3] = UPPER_BOUND - 1
  /\ args[1][HASH_LENGTH] = 200
  /\ ret.ok /\ ret.val[HASH_LENGTH] = 72

\* C11: when a leaf hash, proof and digest verify, the digest recomputed from
\* the leaf with any one bit flipped differs from the digest, so
\* verifyDocumentMetadata on the altered leaf returns false.
C11_AlteredLeafNotVerified ==
  fn = "verifyAlteredDocumentHash" =>
    /\ ret.ok /\ ret.val = FALSE
    /\ Len(parseProof(args[3])) = 0 => toBase64(args[1]) # args[2]

\* A leaf with two siblings in its proof, its very first bit flipped.
C11_Witness ==
  /\ fn = "verifyAlteredDocumentHash"
  /\ Len(args[3].IonText) = 2
  /\ args[5] = 0 /\ args[6] = 0
  /\ BitDistance(args[1], args[4]) = 1
  /\ ret.ok /\ ret.val = FALSE

\* C15: when a block hash, proof and digest verify, verifyDocumentMetadata of
\* the same hash and proof against the base64 text of the digest with any one
\* bit flipped returns false.
C15_AlteredDigestNotVerified ==
  fn = "verifyAlteredDigest" =>
    /\ ret.ok /\ ret.val = FALSE
    /\ args[2] # args[4]

\* A block hash with a sibling in its proof, the last bit of the digest flipped.
C15_Witness ==
  /\ fn = "verifyAlteredDigest"
  /\ Len(args[3].IonText) = 1
  /\ args[5] = HASH_LENGTH - 1 /\ args[6] = UPPER_BOUND - 1
  /\ BitDistance(fromBase64(args[2]), fromBase64(args[4])) = 1
  /\ ret.ok /\ ret.val = FALSE

(***************************************************************************)
(* Properties of the key-value store.                                      *)
(***************************************************************************)
CallKey(name, arguments) ==
  IF name = "setValue" THEN arguments[1] ELSE documentKey(arguments[1])

CallVersion(name, arguments) ==
  IF name = "setValue" THEN arguments[3] ELSE arguments[2]

\* A call that writes one document under a key the table holds once, with
\* nothing else in the way (a key and a value are given, the table exists).
WritesExistingKey(name) ==
  /\ fn = "none" /\ fn' = name
  /\ name = "setValue" => (args'[1] # "" /\ ~falsy(args'[2]) /\ tableState = "EXIST")
  /\ Len(rowsWithKeys(table, {CallKey(name, args')})) = 1

SuppliedVersionDiffers(name) ==
  /\ CallVersion(name, args').kind = "number"
  /\ CallVersion(name, args').num # rowsWithKeys(table, {CallKey(name, args')})[1].version

NoWriteExecuted(calls) ==
  \A i \in 1..Len(calls) : calls[i].call \notin {"UPDATE", "INSERT"}

\* The version lock for the calls of one method.
VersionLock(name) ==
  WritesExistingKey(name) =>
    IF SuppliedVersionDiffers(name)
    THEN ~ret'.ok /\ NoWriteExecuted(inner'.calls) /\ table' = table
    ELSE /\ ret'.ok
         /\ Len(table') = Len(table)
         /\ \A i \in 1..Len(table) :
              IF keyOf(table[i]) = CallKey(name, args')
              THEN /\ table'[i].version = table[i].version + 1
                   /\ keyOf(table'[i]) = keyOf(table[i])
                   /\ ret'.val.documentId = table[i].id
              ELSE table'[i] = table[i]

\* C16: when the key's document exists and a version number (any finite
\* number, 0 included) that differs from its latest version is supplied to
\* setValue or upsert, the call rejects and executes no UPDATE or INSERT; with
\* the latest version, or none, the document is updated.
C16_VersionLock ==
  [][VersionLock("setValue") /\ VersionLock("upsert")]_vars

\* The upserts of a setValues call on the table as it is.
UpsertsOf(rows, keys, values, versions) ==
  [index \in 1..Len(keys) |->
     upsert(rows, documentsArray(keys, values)[index], versionAt(versions, index))]

\* C17: if the upsert of any key of a setValues call fails, the call rejects
\* and the table holds what it held before: no document of the call is
\* inserted or updated.
C17_SetValuesAllOrNothing ==
  [][(fn = "none" /\ fn' = "setValues") =>
       /\ ~ret'.ok => table' = table
       /\ (/\ argumentsError(args'[1], args'[2], args'[3]) = ""
           /\ \E index \in 1..Len(args'[1]) :
                ~UpsertsOf(table, args'[1], args'[2], args'[3])[index].ok)
          => (~ret'.ok /\ table' = table)]_vars

\* Two keys, the first upsert has sent its UPDATE, the second is refused for
\* its version, the transaction is aborted.
C17_Witness ==
  /\ fn = "setValues"
  /\ args[1] = <<"k1", "k2">>
  /\ ~ret.ok
  /\ ~inner.result.ok
  /\ inner.result.msg = "Expected version number does not equal the latest version number in the ledger"
  /\ \E i \in 1..Len(inner.calls) : inner.calls[i] = Call("UPDATE", "k1")
  /\ inner.calls[Len(inner.calls)] = Call("abort", "")

\* C18: once setValue(k, v) has succeeded for a string or JSON object v,
\* getValue(k) returns a value equal to v, in type and content.  The value
\* counts as returned when it is the result itself or the data of the entry
\* {key, data} that getValue resolves to.
C18_RoundTrip ==
  (fn = "setValue" /\ ret.ok) =>
    /\ getValue(table, args[1], FALSE).ret.ok
    /\ \/ getValue(table, args[1], FALSE).ret.val = args[2]
       \/ getValue(table, args[1], FALSE).ret.val.data = args[2]

RequestedExisting == {k \in Range(args[1]) : Len(rowsWithKeys(table, {k})) > 0}

EntriesFor(k) == {i \in 1..Len(ret.val) : ret.val[i].key = k}

ShapeAccepted(keys, values, versions) ==
  /\ Len(keys) \in 1..MaxValuesAtATime
  /\ Len(values) = Len(keys)
  /\ versions.given => Len(versions.list) = Len(keys)

\* C20: setValues accepts 1 to 10 keys with as many values (and as many
\* versions when given); for any other shape it rejects before it waits for
\* the table and before it starts a transaction.
C20_ShapeCheckedFirst ==
  fn = "setValues" =>
    IF ShapeAccepted(args[1], args[2], args[3])
    THEN Len(inner.calls) > 0 /\ inner.calls[1] = Call("assureTableExists", "")
    ELSE ~ret.ok /\ inner.calls = <<>>

\* Eleven keys with eleven values.
C20_Witness ==
  /\ fn = "setValues"
  /\ Len(args[1]) = MaxValuesAtATime + 1 /\ Len(args[2]) = MaxValuesAtATime + 1
  /\ ~ret.ok /\ inner.calls = <<>>
  /\ inner.result.msg = "Unable to submit more than 10 values at a time"

\* C21: verifyDocumentRevisionHash returns true exactly when the pairwise
\* combination of the hash of revision.data and the hash of
\* revision.metadata equals revision.hash, so a revision that validated
\* returns false once its data is changed.
C21_RevisionHashChecksData ==
  /\ (fn \in {"verifyDocumentRevisionHash", "verifyChangedRevision"} /\ ret.ok) =>
       ret.val = (args[1].hash =
                    toBase64(joinHashesPairwise(generateIonHash(args[1].data).val,
                                                generateIonHash(args[1].metadata).val).val))
  /\ fn = "verifyChangedRevision" => (ret.ok /\ ret.val = FALSE)

\* The revision of the test validated, data._val was set to "EvilValue", and
\* the check returned false.
C21_Witness ==
  /\ fn = "verifyChangedRevision"
  /\ args[2] = LedgerDocumentRevision("k1", "MyValue1", "0")
  /\ args[1].data = Obj(args[2].data.fields \cup {<<"_val", Str("EvilValue")>>})
  /\ args[1].hash = args[2].hash
  /\ ret.ok /\ ret.val = FALSE

\* C22: verify runs its stages in the order fetch revision, revision-hash
\* check, document-id check, block-address check, digest recomputation; a
\* stage is reached only if every earlier one passed, so the error raised is
\* that of the first stage, in this order, whose comparison fails.
C22_StagesInOrder ==
  VerifyCall =>
    /\ inner.calls[1] = "getRevision"
    /\ ~FetchedOk => (inner.result = args[2] /\ inner.calls = <<"getRevision">>)
    /\ FetchedOk =>
         /\ (inner.result.msg = "Revision hashes do not match") <=> ~HashesMatch
         /\ (inner.result.msg = "Revision IDs do not match") <=> (HashesMatch /\ ~IdsMatch)
         /\ (inner.result.msg = "BlockAddresses do not match")
              <=> (HashesMatch /\ IdsMatch /\ ~AddressTextsMatch)
         /\ ~NoDigestComputed <=> (HashesMatch /\ IdsMatch /\ AddressTextsMatch)
         /\ ~NoDigestComputed => inner.calls[2] = "verifyDocumentMetadata"

\* The asserted revision hash, document id and block address all disagree
\* with the fetched revision, and the error is the one about the hash.
C22_Witness ==
  /\ FetchedOk
  /\ ~HashesMatch /\ ~IdsMatch /\ ~AddressTextsMatch
  /\ inner.result.msg = "Revision hashes do not match"
  /\ ~ret.ok

\* C23: the candidate digest is computed from the asserted revision hash and
\* the proof fetched from the ledger, never from the Proof field of the
\* caller's metadata: two verify calls against the same ledger state whose
\* metadata differ only in Proof have the same outcome.
C23_ProofFieldIgnored ==
  /\ fn = "verifyLedgerMetadataAgain" => (inner = args[4] /\ ret = args[5])
  /\ (fn \in {"verifyLedgerMetadata", "verifyLedgerMetadataAgain"}
        /\ ~NoDigestComputed /\ inner.result.ok) =>
       inner.result.val =
         (toBase64(buildCandidateDigest(args[2].val.Proof, fromBase64(args[1].RevisionHash)).val)
            = args[1].LedgerDigest.Digest)

\* Metadata that verified is handed in again with a Proof that does not lead
\* from the revision hash to the digest, and verifies again.
C23_Witness ==
  /\ fn = "verifyLedgerMetadataAgain"
  /\ args[2].ok
  /\ args[3].Proof = args[2].val.Proof
  /\ args[1].Proof # args[3].Proof
  /\ args[1].Proof = ProofHolder(<<TestHash(1, 1), TestHash(200, 200)>>)
  /\ args[5] = Returned(TRUE)
  /\ ret = Returned(TRUE)

MetadataCall == fn \in {"getMetadata", "getDocumentLedgerMetadata", "getMetadataByDocIdAndTxId"}

DigestFetches == {i \in 1..Len(inner.calls) : inner.calls[i] = "getLedgerDigest"}

Sleeps == {i \in 1..Len(inner.calls) : inner.calls[i] = "sleep(100)"}

\* C24: while metadata is built the ledger digest is fetched at most twice
\* per call; the second fetch happens only if the tip of the first digest is
\* behind the block of the revision, after one sleep of 100 ms; there is no
\* third fetch; with a digest passed in by the caller there is no fetch.
C24_DigestFetchedAtMostTwice ==
  MetadataCall =>
    /\ Cardinality(DigestFetches) <= 2
    /\ fn = "getDocumentLedgerMetadata" => DigestFetches = {}
    /\ Cardinality(DigestFetches) = 2 =>
         /\ inner.tips[1] < inner.sequenceNo
         /\ Cardinality(Sleeps) = 1
         /\ \E i \in Sleeps : DigestFetches = {i - 1, i + 1}
    /\ Cardinality(DigestFetches) < 2 => Sleeps = {}

\* The first digest and the second are both behind the block of the
\* revision: two fetches, one sleep, and the call fails in getRevision.
C24_Witness ==
  /\ fn = "getMetadataByDocIdAndTxId"
  /\ inner.sequenceNo >= 0
  /\ inner.tips[1] < inner.sequenceNo
  /\ inner.tips[2] < inner.sequenceNo
  /\ Cardinality(DigestFetches) = 2
  /\ inner.calls[Len(inner.calls)] = "getRevision"
  /\ ~ret.ok

\* C25: flipRandomBit yields a new hash value and leaves the array passed to
\* it unchanged: after the call the caller's array, the first object of the
\* heap, holds the bytes it held before.
C25_FlipLeavesOriginal ==
  fn = "flipRandomBit" => (Len(heap) >= 1 /\ heap[1] = args[1])

VerifyCalls == fn \in {"verifyLedgerMetadata", "verifyLedgerMetadataAgain"}

\* C30: verifyDocumentMetadataWithUserData leaves the caller's metadata
\* object unchanged: RevisionHash, BlockAddress, DocumentId, Proof and
\* LedgerDigest hold after the call what they held before, whether the call
\* returns or throws, although a revision hash is bit-flipped on the way.
C30_MetadataUnchanged ==
  VerifyCalls =>
    /\ heap[1].RevisionHash = args[1].RevisionHash
    /\ heap[1].BlockAddress = args[1].BlockAddress
    /\ heap[1].DocumentId = args[1].DocumentId
    /\ heap[1].Proof = args[1].Proof
    /\ heap[1].LedgerDigest = args[1].LedgerDigest

\* The call verified the metadata and flipped a bit of the decoded revision
\* hash in place; the metadata still holds the hash it was called with.
C30_Witness ==
  /\ fn = "verifyLedgerMetadata"
  /\ ret = Returned(TRUE)
  /\ Len(heap) = 2
  /\ heap[2] # fromBase64(args[1].RevisionHash)
  /\ BitDistance(heap[2], fromBase64(args[1].RevisionHash)) = 1
  /\ heap[1] = args[1]


\* The call in flight is about to start its transaction.
TransactionStarts == pc.at = "upsert"

\* C26: setValues and uploadAsFile start their upsert transaction only when
\* assureTableExists has seen tableState = EXIST after at least one sleep,
\* never while the state is CHECKING or CREATING, however the constructor's
\* table check and creation interleave with the call.
C26_UpsertOnlyWhenTableExists ==
  TransactionStarts => (tableState = "EXIST" /\ inner.polls >= 1)

\* A call that slept through the check and the creation and then wrote.
C26_Witness ==
  /\ fn \in {"setValues", "uploadAsFile"}
  /\ pc = Idle
  /\ ret.ok
  /\ Len(inner.calls) >= 2
  /\ inner.polls = 3
  /\ Len(table) >= 1

CallInFlight == pc.at \in {"sleep", "upsert"}

CallSettled == pc = Idle /\ fn \in {"setValues", "uploadAsFile"} /\ ret # NoResult

C28_KeyUnique ==
  \A i, j \in 1..Len(table) : keyOf(table[i]) = keyOf(table[j]) => i = j


DriversFor(ledgerName) == {a \in Drivers(heap) : heap[a].ledgerName = ledgerName}

\* C29: the constructors of QLDBHelper have created at most one QldbDriver
\* for each ledger name, and every QLDBHelper instance holds the driver that
\* was created for its ledger name, so all instances of one ledger name hold
\* the same driver, after any sequence of constructions.
C29_OneDriverPerLedger ==
  /\ \A ledgerName \in LedgerNames : Cardinality(DriversFor(ledgerName)) <= 1
  /\ \A helper \in Helpers(heap) : heap[helper].qldbDriver \in DriversFor(heap[helper].ledgerName)
  /\ \A a, b \in Helpers(heap) :
       heap[a].ledgerName = heap[b].ledgerName => heap[a].qldbDriver = heap[b].qldbDriver

\* Two instances for one ledger, the second made after the first closed its
\* session, and an instance for another ledger: two drivers in all.
C29_Witness ==
  /\ fn = "QLDBHelper"
  /\ ret.ok
  /\ Cardinality(Drivers(heap)) = 2
  /\ \E a, b \in Helpers(heap) :
       /\ a < b
       /\ b = ret.val
       /\ heap[a].ledgerName = heap[b].ledgerName
       /\ heap[heap[a].qldbDriver].closed
  /\ \E c \in Helpers(heap) : heap[c].ledgerName # args[1]

====
